---- MODULE Spec2Model ----
(***************************************************************************)
(* Model of the in-memory key/value store of internal/db: the entry       *)
(* operations of item.go, the store engine of memory.go and the           *)
(* operation log and its replay of persistence.go.                        *)
(*                                                                         *)
(* Time is a natural-number clock; 0 is the zero time.Time.               *)
(***************************************************************************)
EXTENDS Integers, Sequences, FiniteSets, TLC

\* ------------------------------------------------------------------ bounds
MaxTime == 3
MaxDrift == 1
MaxLog == 2
MaxListLen == 2
MaxRestarts == 1
MaxCalls == 2
MaxLines == 3
MaxArrays == 3

\* --------------------------------------------------------------- constants
\* item.go:13-14
StringType == 0
StringSliceType == 1
\* item.go:23 (5 minutes, in clock ticks of the model)
defaultTTL == 2

Keys == {"k1"}
Elems == {"a", "b"}
\* a TTL override passed as WithTTL(d), or none
NoTTL == 0
TTLOpts == {NoTTL, 1}

Min(a, b) == IF a <= b THEN a ELSE b

\* ------------------------------------------------------------------ values
\* StringOrSlice.Val: a string, a []string, something else, or a nil *StringOrSlice
StrVal(s) == [variant |-> "string", str |-> s, list |-> <<>>, nilSlice |-> FALSE]
ListVal(l) == [variant |-> "slice", str |-> "", list |-> l, nilSlice |-> FALSE]
OtherVal == [variant |-> "other", str |-> "", list |-> <<>>, nilSlice |-> FALSE]
NilValue == [variant |-> "nil", str |-> "", list |-> <<>>, nilSlice |-> FALSE]
\* a []string that is nil: of length 0 like []string{}, and a []string to every
\* type switch and type assertion
NilListVal == [variant |-> "slice", str |-> "", list |-> <<>>, nilSlice |-> TRUE]

\* the values callers pass to Set and Update
InputValues == {StrVal("a"), ListVal(<<"a">>), OtherVal}

\* the kind tag that mirrors a value's variant
VariantKind(v) == IF v.variant = "slice" THEN StringSliceType ELSE StringType

\* -------------------------------------------------------------------- Item
Item(v, ttl, kind, created, updated) ==
    [Value |-> v, TTL |-> ttl, Kind |-> kind, CreatedAt |-> created, UpdatedAt |-> updated]

\* a nil *Item
NilItem == Item(NilValue, 0, 0, 0, 0)

\* isExpired with the comparison an entry that dies at its deadline would need
isExpiredAtDeadline(d, t) == d.TTL <= t

\* (d *Item) isExpired, with t the value of time.Now()
isExpired(d, t) == d.TTL < t

\* calculateExpirationTime, with t the value of time.Now()
calculateExpirationTime(ttl, t) == t + ttl

\* WithTTL.apply, with t the value of time.Now(); opt = NoTTL stands for no option
applyOpts(d, opt, t) == IF opt = NoTTL THEN d ELSE [d EXCEPT !.TTL = t + opt]

\* newItem that leaves the zero Kind on every entry it builds
newItemKindUnset(value, opt, r) ==
    LET d0 == Item(NilValue, r[1] + defaultTTL, 0, r[2], r[3])
        d1 == IF opt = NoTTL THEN d0 ELSE [d0 EXCEPT !.TTL = r[4] + opt]
    IN  IF value.variant \in {"string", "slice"}
        THEN [err |-> "nil", item |-> [d1 EXCEPT !.Value = value]]
        ELSE [err |-> "ErrInvalidDataType", item |-> NilItem]

\* newItem; r is the sequence of the values of its time.Now() calls:
\* r[1] in calculateExpirationTime, r[2] CreatedAt, r[3] UpdatedAt, r[4] in WithTTL.apply
newItem(value, opt, r) ==
    LET d0 == Item(NilValue, calculateExpirationTime(defaultTTL, r[1]), 0, r[2], r[3])
        d1 == applyOpts(d0, opt, r[4])
    IN  CASE value.variant = "string" ->
               [err |-> "nil", item |-> [d1 EXCEPT !.Kind = StringType, !.Value = value]]
          [] value.variant = "slice" ->
               [err |-> "nil", item |-> [d1 EXCEPT !.Kind = StringSliceType, !.Value = value]]
          [] OTHER -> [err |-> "ErrInvalidDataType", item |-> NilItem]

\* update that replaces the value and leaves the kind tag as it was
itemUpdateKeepsKind(d, value, updatedAt, opt, tOpt) ==
    IF d.Value.variant = "nil" THEN [err |-> "ErrDataNotFound", item |-> d]
    ELSE IF value.variant \in {"string", "slice"}
    THEN [err |-> "nil",
          item |-> [applyOpts([d EXCEPT !.Value = value], opt, tOpt)
                      EXCEPT !.UpdatedAt = updatedAt]]
    ELSE [err |-> "ErrInvalidDataType", item |-> d]

\* update that stamps the entry as created anew
itemUpdateRestamps(d, value, updatedAt, opt, tOpt) ==
    IF d.Value.variant = "nil" THEN [err |-> "ErrDataNotFound", item |-> d]
    ELSE CASE value.variant = "string" ->
               [err |-> "nil",
                item |-> [applyOpts([d EXCEPT !.Kind = StringType, !.Value = value], opt, tOpt)
                            EXCEPT !.UpdatedAt = updatedAt, !.CreatedAt = updatedAt]]
           [] value.variant = "slice" ->
               [err |-> "nil",
                item |-> [applyOpts([d EXCEPT !.Kind = StringSliceType, !.Value = value], opt, tOpt)
                            EXCEPT !.UpdatedAt = updatedAt, !.CreatedAt = updatedAt]]
           [] OTHER -> [err |-> "ErrInvalidDataType", item |-> d]

\* update that starts a new default lifetime when no override is given
itemUpdateResetsTTL(d, value, updatedAt, opt, tOpt) ==
    IF d.Value.variant = "nil" THEN [err |-> "ErrDataNotFound", item |-> d]
    ELSE IF value.variant \notin {"string", "slice"}
    THEN [err |-> "ErrInvalidDataType", item |-> d]
    ELSE [err |-> "nil",
          item |-> [applyOpts([d EXCEPT !.Kind = VariantKind(value), !.Value = value,
                                        !.TTL = calculateExpirationTime(defaultTTL, updatedAt)],
                              opt, tOpt)
                      EXCEPT !.UpdatedAt = updatedAt]]

\* update that applies the options before it looks at the value
itemUpdateOptsFirst(d, value, updatedAt, opt, tOpt) ==
    IF d.Value.variant = "nil" THEN [err |-> "ErrDataNotFound", item |-> d]
    ELSE IF value.variant \notin {"string", "slice"}
    THEN [err |-> "ErrInvalidDataType", item |-> applyOpts(d, opt, tOpt)]
    ELSE [err |-> "nil",
          item |-> [applyOpts([d EXCEPT !.Kind = VariantKind(value), !.Value = value],
                              opt, tOpt)
                      EXCEPT !.UpdatedAt = updatedAt]]

\* (d *Item) update; tOpt is the value of time.Now() in WithTTL.apply
itemUpdate(d, value, updatedAt, opt, tOpt) ==
    IF d.Value.variant = "nil" THEN [err |-> "ErrDataNotFound", item |-> d]
    ELSE CASE value.variant = "string" ->
               [err |-> "nil",
                item |-> [applyOpts([d EXCEPT !.Kind = StringType, !.Value = value], opt, tOpt)
                            EXCEPT !.UpdatedAt = updatedAt]]
           [] value.variant = "slice" ->
               [err |-> "nil",
                item |-> [applyOpts([d EXCEPT !.Kind = StringSliceType, !.Value = value], opt, tOpt)
                            EXCEPT !.UpdatedAt = updatedAt]]
           [] OTHER -> [err |-> "ErrInvalidDataType", item |-> d]

\* pushToSlice that puts the new element in front of the list
pushToSliceFront(d, updatedAt, value) ==
    IF d.Kind # StringSliceType THEN [err |-> "ErrInvalidDataType", item |-> d]
    ELSE IF d.Value.variant # "slice" THEN [err |-> "ErrInvalidDataType", item |-> d]
    ELSE [err |-> "nil",
          item |-> [d EXCEPT !.Value = ListVal(<<value>> \o d.Value.list),
                             !.UpdatedAt = updatedAt]]

\* pushToSlice without the type guard: a string entry is turned into a list
pushToSliceAnyKind(d, updatedAt, value) ==
    [err |-> "nil",
     item |-> [d EXCEPT !.Value = ListVal(Append(IF d.Value.variant = "slice" THEN d.Value.list
                                                 ELSE <<d.Value.str>>, value)),
                        !.Kind = StringSliceType,
                        !.UpdatedAt = updatedAt]]

\* (d *Item) pushToSlice
pushToSlice(d, updatedAt, value) ==
    IF d.Kind # StringSliceType THEN [err |-> "ErrInvalidDataType", item |-> d]
    ELSE IF d.Value.variant # "slice" THEN [err |-> "ErrInvalidDataType", item |-> d]
    ELSE [err |-> "nil",
          item |-> [d EXCEPT !.Value = ListVal(Append(d.Value.list, value)),
                             !.UpdatedAt = updatedAt]]

\* popFromSlice that removes the first element instead of the last
popFromSliceFirst(d, updatedAt) ==
    IF d.Kind # StringSliceType THEN [err |-> "ErrInvalidDataType", item |-> d]
    ELSE IF d.Value.variant # "slice" \/ Len(d.Value.list) = 0
         THEN [err |-> "ErrDataNotFound", item |-> d]
    ELSE [err |-> "nil",
          item |-> [d EXCEPT !.Value = ListVal(Tail(d.Value.list)),
                             !.UpdatedAt = updatedAt]]

\* (d *Item) popFromSlice
popFromSlice(d, updatedAt) ==
    IF d.Kind # StringSliceType THEN [err |-> "ErrInvalidDataType", item |-> d]
    ELSE IF d.Value.variant # "slice" \/ Len(d.Value.list) = 0
         THEN [err |-> "ErrDataNotFound", item |-> d]
    ELSE [err |-> "nil",
          item |-> [d EXCEPT !.Value = ListVal(SubSeq(d.Value.list, 1, Len(d.Value.list) - 1)),
                             !.UpdatedAt = updatedAt]]

\* ----------------------------------------------------- operation log (JSON)
\* Operation: command, key and the embedded *Item (hasItem = FALSE: nil).  The
\* Time field is written to the file and never read again; it is left out.
Operation(cmd, key, hasItem, item) ==
    [Command |-> cmd, Key |-> key, hasItem |-> hasItem, Item |-> item]

\* StringOrSlice.MarshalJSON; a nil *StringOrSlice is written as null, and so
\* is a nil []string (json.Marshal of a nil slice)
MarshalJSON(v) ==
    CASE v.variant = "string" -> [j |-> "jstring", s |-> v.str, a |-> <<>>]
      [] v.variant = "slice" /\ ~v.nilSlice -> [j |-> "jarray", s |-> "", a |-> v.list]
      [] OTHER -> [j |-> "null", s |-> "", a |-> <<>>]

\* StringOrSlice.UnmarshalJSON; null leaves the *StringOrSlice nil
UnmarshalJSON(data) ==
    CASE data.j = "jstring" -> StrVal(data.s)
      [] data.j = "jarray" -> ListVal(data.a)
      [] OTHER -> NilValue

\* json.Encoder.Encode of an Operation: one line of the log file.  The fields
\* of a nil embedded *Item are omitted (hasItem = FALSE).
Encode(op) ==
    IF op.hasItem
    THEN [command |-> op.Command, key |-> op.Key, hasItem |-> TRUE,
          value |-> MarshalJSON(op.Item.Value), ttl |-> op.Item.TTL, kind |-> op.Item.Kind,
          created_at |-> op.Item.CreatedAt, updated_at |-> op.Item.UpdatedAt]
    ELSE [command |-> op.Command, key |-> op.Key, hasItem |-> FALSE,
          value |-> MarshalJSON(NilValue), ttl |-> 0, kind |-> 0,
          created_at |-> 0, updated_at |-> 0]

\* a line json.Decoder cannot decode into an Operation (not JSON, cut short,
\* or a value of the wrong JSON type) carries this tag in place of a command
Undecodable == "<undecodable>"
Decodable(line) == line.command # Undecodable

\* json.Decoder.Decode of one line into an Operation
Decode(line) ==
    IF line.hasItem
    THEN Operation(line.command, line.key, TRUE,
                   Item(UnmarshalJSON(line.value), line.ttl, line.kind,
                        line.created_at, line.updated_at))
    ELSE Operation(line.command, line.key, FALSE, NilItem)

\* map assignment store[k] = item and delete(store, k)
StorePut(st, k, item) == [x \in DOMAIN st \cup {k} |-> IF x = k THEN item ELSE st[x]]
StoreDelete(st, k) == [x \in DOMAIN st \ {k} |-> st[x]]
EmptyStore == [x \in {} |-> NilItem]

\* the switch of loadStoredData with an update case that leaves the entry as it is
replayOneSkipsUpdate(st, op) ==
    CASE op.Command = "set" -> [err |-> "nil", store |-> StorePut(st, op.Key, op.Item)]
      [] op.Command = "update" ->
            IF op.Key \in DOMAIN st
            THEN [err |-> "nil", store |-> st]
            ELSE [err |-> "errorString", store |-> st]
      [] op.Command = "remove" ->
            IF op.Key \in DOMAIN st
            THEN [err |-> "nil", store |-> StoreDelete(st, op.Key)]
            ELSE [err |-> "errorString", store |-> st]
      [] op.Command = "push" ->
            IF op.Key \in DOMAIN st
            THEN IF op.Item.Value.variant # "string"
                 THEN [err |-> "panic", store |-> st]
                 ELSE LET r == pushToSlice(st[op.Key], op.Item.UpdatedAt, op.Item.Value.str)
                      IN  IF r.err = "nil"
                          THEN [err |-> "nil", store |-> StorePut(st, op.Key, r.item)]
                          ELSE [err |-> "errorString", store |-> st]
            ELSE [err |-> "errorString", store |-> st]
      [] op.Command = "pop" ->
            IF op.Key \in DOMAIN st
            THEN LET r == popFromSlice(st[op.Key], op.Item.UpdatedAt)
                 IN  IF r.err = "nil"
                     THEN [err |-> "nil", store |-> StorePut(st, op.Key, r.item)]
                     ELSE [err |-> "wrap:" \o r.err, store |-> st]
            ELSE [err |-> "errorString", store |-> st]
      [] OTHER -> [err |-> "errorString", store |-> st]

\* the switch of loadStoredData applied to one decoded operation
replayOne(st, op) ==
    CASE op.Command = "set" -> [err |-> "nil", store |-> StorePut(st, op.Key, op.Item)]
      [] op.Command = "update" ->
            IF op.Key \in DOMAIN st
            THEN [err |-> "nil",
                  store |-> StorePut(st, op.Key,
                               [st[op.Key] EXCEPT !.Value = op.Item.Value,
                                                  !.UpdatedAt = op.Item.UpdatedAt])]
            ELSE [err |-> "errorString", store |-> st]
      [] op.Command = "remove" ->
            IF op.Key \in DOMAIN st
            THEN [err |-> "nil", store |-> StoreDelete(st, op.Key)]
            ELSE [err |-> "errorString", store |-> st]
      [] op.Command = "push" ->
            IF op.Key \in DOMAIN st
            THEN IF op.Item.Value.variant # "string"
                 THEN [err |-> "panic", store |-> st]
                 ELSE LET r == pushToSlice(st[op.Key], op.Item.UpdatedAt, op.Item.Value.str)
                      IN  IF r.err = "nil"
                          THEN [err |-> "nil", store |-> StorePut(st, op.Key, r.item)]
                          ELSE [err |-> "errorString", store |-> st]
            ELSE [err |-> "errorString", store |-> st]
      [] op.Command = "pop" ->
            IF op.Key \in DOMAIN st
            THEN LET r == popFromSlice(st[op.Key], op.Item.UpdatedAt)
                 IN  IF r.err = "nil"
                     THEN [err |-> "nil", store |-> StorePut(st, op.Key, r.item)]
                     ELSE [err |-> "wrap:" \o r.err, store |-> st]
            ELSE [err |-> "errorString", store |-> st]
      [] OTHER -> [err |-> "errorString", store |-> st]

\* the decode loop of loadStoredData over the lines of the file, from line i on
RECURSIVE replayFrom(_, _, _)
replayFrom(lines, i, st) ==
    IF i > Len(lines) THEN [err |-> "nil", store |-> st]
    ELSE IF ~Decodable(lines[i]) THEN [err |-> "wrap:decode", store |-> st]
    ELSE LET r == replayOne(st, Decode(lines[i]))
         IN  IF r.err # "nil" THEN r ELSE replayFrom(lines, i + 1, r.store)

\* loadStoredData: replay of the whole file onto the (empty) map
loadStoredData(lines) == replayFrom(lines, 1, EmptyStore)

\* ------------------------------------------------------------------- state
VARIABLES
    store,              \* memoryDB.store: key -> *Item (a function on the keys present)
    log,                \* the lines of test_db.log
    now,                \* the clock read by time.Now()
    phase,              \* "running", "closed" (after Close) or "aborted" (startup panic)
    persistenceEnabled, \* memoryDB.persistenceEnabled
    logFile,            \* what memoryDB.logFile refers to: "none", "append" or "reader"
    appendOpen,         \* the O_APPEND handle of logEncoder is open
    restarts,           \* number of startups on an existing log so far
    ret,                \* the last call of the public interface and what it returned
    snap,               \* the map as it was when Close discarded it, and when
    lastSet,            \* per key: the last successful Set not yet followed by a change of the key
    mu,                 \* memoryDB.mu: the goroutine holding the lock, or "free"
    pc,                 \* per goroutine: where it is in its call
    call,               \* per caller: the call in progress
    local,              \* per caller: the local variables of the call in progress
    rets,               \* per caller: what its last call returned
    ncalls,             \* number of calls made so far
    applied,            \* the operations in the order their map mutation took effect
    arrays,             \* the backing arrays of the []string values: array id -> cells
    errDataNotFound,    \* the Message of the package variable ErrDataNotFound
    held                \* the keys whose NotFound error a caller of Get still holds

concVars == <<mu, pc, call, local, rets, ncalls, applied>>
seqVars == <<restarts, ret, snap, lastSet>>
\* followed where keys can share a list or a second key exists (SpecPair)
pairVars == <<arrays, errDataNotFound, held>>

vars == <<store, log, now, phase, persistenceEnabled, logFile, appendOpen, restarts,
          ret, snap, lastSet, mu, pc, call, local, rets, ncalls, applied,
          arrays, errDataNotFound, held>>

\* what a call returned.  item is what the caller sees in the *Item it was
\* handed; ref tells which *Item that is (see ItemRef)
Ret(op, key, err, hasItem, item) ==
    [op |-> op, key |-> key, err |-> err, hasItem |-> hasItem, item |-> item, ref |-> 0]

NoSet == [valid |-> FALSE, v |-> NilValue, t0 |-> 0, d |-> 0]
Forget(k) == [lastSet EXCEPT ![k] = NoSet]

\* the values of n successive time.Now() calls of one handler, the first at `now`
Reads(n) ==
    {r \in [1..n -> now..Min(now + MaxDrift, MaxTime)] :
        r[1] = now /\ \A i \in 1..(n - 1) : r[i] <= r[i + 1]}

\* memoryDB.logOperation: the file after the call
logOperation(lines, op) ==
    IF ~persistenceEnabled THEN lines
    ELSE IF appendOpen THEN Append(lines, Encode(op))
    ELSE lines

\* the instance is in service: constructed and not yet closed (Close is the
\* last call made on an instance)
Serving == phase = "running"

\* the goroutines: the callers of the public interface and startCleanupRoutine
Callers == {"c1", "c2"}
Procs == Callers \cup {"sweeper"}

NoCall == [op |-> "none", key |-> "", value |-> NilValue, opt |-> NoTTL]
NoLocal == [exists |-> FALSE, item |-> NilItem, examinedAt |-> 0, logLen |-> 0,
            mutated |-> FALSE]
NoRet == Ret("none", "", "nil", FALSE, NilItem)

\* errdefs.go:5: the message ErrDataNotFound is created with; no caller-made
\* list exists and no error is held
Pristine ==
    /\ arrays = <<>>
    /\ errDataNotFound = "item not found"
    /\ held = {}

\* no goroutine is inside a call
Quiescent ==
    /\ mu = "free"
    /\ pc = [p \in Procs |-> "idle"]
    /\ call = [t \in Callers |-> NoCall]
    /\ local = [t \in Callers |-> NoLocal]
    /\ rets = [t \in Callers |-> NoRet]
    /\ ncalls = 0
    /\ applied = <<>>

Init ==
    /\ Quiescent
    /\ Pristine
    /\ store = EmptyStore
    /\ log = <<>>
    /\ now = 1
    /\ phase = "running"
    /\ persistenceEnabled \in BOOLEAN
    /\ logFile = IF persistenceEnabled THEN "append" ELSE "none"
    /\ appendOpen = persistenceEnabled
    /\ restarts = 0
    /\ ret = Ret("NewMemoryDB", "", "nil", FALSE, NilItem)
    /\ snap = [store |-> EmptyStore, time |-> 0]
    /\ lastSet = [k \in Keys |-> NoSet]

\* ---------------------------------------------------------- the operations
\* Get that reports an expired entry without deleting it
GetKeepsExpired(key) ==
    /\ Serving
    /\ IF key \notin DOMAIN store
       THEN ret' = Ret("Get", key, "ErrDataNotFound", FALSE, NilItem)
       ELSE IF isExpired(store[key], now)
       THEN ret' = Ret("Get", key, "ErrKeyHasExpired", FALSE, NilItem)
       ELSE ret' = Ret("Get", key, "nil", TRUE, store[key])
    /\ UNCHANGED <<store, lastSet, log, now, phase, persistenceEnabled, pairVars, logFile,
                   appendOpen, restarts, snap>>
    /\ UNCHANGED concVars

\* Get that stamps the entry it reads
GetTouches(key) ==
    /\ Serving
    /\ IF key \notin DOMAIN store
       THEN /\ ret' = Ret("Get", key, "ErrDataNotFound", FALSE, NilItem)
            /\ UNCHANGED <<store, lastSet>>
       ELSE IF isExpired(store[key], now)
       THEN /\ store' = StoreDelete(store, key)
            /\ ret' = Ret("Get", key, "ErrKeyHasExpired", FALSE, NilItem)
            /\ lastSet' = Forget(key)
       ELSE /\ store' = [store EXCEPT ![key].UpdatedAt = now]
            /\ ret' = Ret("Get", key, "nil", TRUE, store'[key])
            /\ UNCHANGED lastSet
    /\ UNCHANGED <<log, now, phase, persistenceEnabled, pairVars, logFile, appendOpen, restarts, snap>>
    /\ UNCHANGED concVars

\* memoryDB.Get
Get(key) ==
    /\ Serving
    /\ IF key \notin DOMAIN store
       THEN /\ ret' = Ret("Get", key, "ErrDataNotFound", FALSE, NilItem)
            /\ UNCHANGED <<store, lastSet>>
       ELSE IF isExpired(store[key], now)
       THEN /\ store' = StoreDelete(store, key)
            /\ ret' = Ret("Get", key, "ErrKeyHasExpired", FALSE, NilItem)
            /\ lastSet' = Forget(key)
       ELSE /\ ret' = Ret("Get", key, "nil", TRUE, store[key])
            /\ UNCHANGED <<store, lastSet>>
    /\ UNCHANGED <<log, now, phase, persistenceEnabled, pairVars, logFile, appendOpen, restarts, snap>>
    /\ UNCHANGED concVars

\* Set that drops the entry stored under the key when the new value is rejected
SetClearsOnError(key, value, opt) ==
    /\ Serving
    /\ Len(log) < MaxLog
    /\ \E r \in Reads(4) :
         /\ opt = NoTTL => r[4] = r[3]
         /\ LET n == newItem(value, opt, r)
            IN  IF n.err # "nil"
                THEN /\ ret' = Ret("Set", key, "wrap:" \o n.err, FALSE, NilItem)
                     /\ now' = r[4]
                     /\ store' = StoreDelete(store, key)
                     /\ lastSet' = Forget(key)
                     /\ UNCHANGED log
                ELSE /\ log' = logOperation(log, Operation("set", key, TRUE, n.item))
                     /\ store' = StorePut(store, key, n.item)
                     /\ ret' = Ret("Set", key, "nil", FALSE, NilItem)
                     /\ now' = r[4]
                     /\ lastSet' = [lastSet EXCEPT ![key] =
                            [valid |-> TRUE, v |-> value,
                             t0 |-> IF opt = NoTTL THEN r[1] ELSE r[4],
                             d |-> IF opt = NoTTL THEN defaultTTL ELSE opt]]
    /\ UNCHANGED <<phase, persistenceEnabled, pairVars, logFile, appendOpen, restarts, snap>>
    /\ UNCHANGED concVars

\* memoryDB.Set
Set(key, value, opt) ==
    /\ Serving
    /\ Len(log) < MaxLog
    /\ \E r \in Reads(4) :
         /\ opt = NoTTL => r[4] = r[3]
         /\ LET n == newItem(value, opt, r)
            IN  IF n.err # "nil"
                THEN /\ ret' = Ret("Set", key, "wrap:" \o n.err, FALSE, NilItem)
                     /\ now' = r[4]
                     /\ UNCHANGED <<store, log, lastSet>>
                ELSE /\ log' = logOperation(log, Operation("set", key, TRUE, n.item))
                     /\ store' = StorePut(store, key, n.item)
                     /\ ret' = Ret("Set", key, "nil", FALSE, NilItem)
                     /\ now' = r[4]
                     /\ lastSet' = [lastSet EXCEPT ![key] =
                            [valid |-> TRUE, v |-> value,
                             t0 |-> IF opt = NoTTL THEN r[1] ELSE r[4],
                             d |-> IF opt = NoTTL THEN defaultTTL ELSE opt]]
    /\ UNCHANGED <<phase, persistenceEnabled, pairVars, logFile, appendOpen, restarts, snap>>
    /\ UNCHANGED concVars

\* memoryDB.Update; r[1] is the updatedAt argument, r[2] the clock in WithTTL.apply
Update(key, value, opt) ==
    /\ Serving
    /\ Len(log) < MaxLog
    /\ IF key \notin DOMAIN store
       THEN /\ ret' = Ret("Update", key, "errorString", FALSE, NilItem)
            /\ UNCHANGED <<store, log, now, lastSet>>
       ELSE \E r \in Reads(2) :
              /\ opt = NoTTL => r[2] = r[1]
              /\ LET u == itemUpdate(store[key], value, r[1], opt, r[2])
                 IN  IF u.err # "nil"
                     THEN /\ ret' = Ret("Update", key, "wrap:" \o u.err, FALSE, NilItem)
                          /\ now' = r[1]
                          \* update works on the stored *Item: what it has
                          \* written before it gave up stays written
                          /\ store' = StorePut(store, key, u.item)
                          /\ UNCHANGED <<log, lastSet>>
                     ELSE /\ store' = StorePut(store, key, u.item)
                          /\ log' = logOperation(log, Operation("update", key, TRUE, u.item))
                          /\ ret' = Ret("Update", key, "nil", FALSE, NilItem)
                          /\ now' = r[2]
                          /\ lastSet' = Forget(key)
    /\ UNCHANGED <<phase, persistenceEnabled, pairVars, logFile, appendOpen, restarts, snap>>
    /\ UNCHANGED concVars

\* Remove that reports success and leaves the entry in the map
RemoveKeepsEntry(key) ==
    /\ Serving
    /\ Len(log) < MaxLog
    /\ IF key \notin DOMAIN store
       THEN /\ ret' = Ret("Remove", key, "errorString", FALSE, NilItem)
            /\ UNCHANGED <<store, log, lastSet>>
       ELSE /\ store' = store
            /\ log' = logOperation(log, Operation("remove", key, FALSE, NilItem))
            /\ ret' = Ret("Remove", key, "nil", FALSE, NilItem)
            /\ lastSet' = Forget(key)
    /\ UNCHANGED <<now, phase, persistenceEnabled, pairVars, logFile, appendOpen, restarts, snap>>
    /\ UNCHANGED concVars

\* Remove that treats an entry past its deadline the way Get does
RemoveChecksExpiry(key) ==
    /\ Serving
    /\ Len(log) < MaxLog
    /\ IF key \notin DOMAIN store
       THEN /\ ret' = Ret("Remove", key, "errorString", FALSE, NilItem)
            /\ UNCHANGED <<store, log, lastSet>>
       ELSE IF isExpired(store[key], now)
       THEN /\ store' = StoreDelete(store, key)
            /\ ret' = Ret("Remove", key, "ErrKeyHasExpired", FALSE, NilItem)
            /\ lastSet' = Forget(key)
            /\ UNCHANGED log
       ELSE /\ store' = StoreDelete(store, key)
            /\ log' = logOperation(log, Operation("remove", key, FALSE, NilItem))
            /\ ret' = Ret("Remove", key, "nil", FALSE, NilItem)
            /\ lastSet' = Forget(key)
    /\ UNCHANGED <<now, phase, persistenceEnabled, pairVars, logFile, appendOpen, restarts, snap>>
    /\ UNCHANGED concVars

\* memoryDB.Remove
Remove(key) ==
    /\ Serving
    /\ Len(log) < MaxLog
    /\ IF key \notin DOMAIN store
       THEN /\ ret' = Ret("Remove", key, "errorString", FALSE, NilItem)
            /\ UNCHANGED <<store, log, lastSet>>
       ELSE /\ store' = StoreDelete(store, key)
            /\ log' = logOperation(log, Operation("remove", key, FALSE, NilItem))
            /\ ret' = Ret("Remove", key, "nil", FALSE, NilItem)
            /\ lastSet' = Forget(key)
    /\ UNCHANGED <<now, phase, persistenceEnabled, pairVars, logFile, appendOpen, restarts, snap>>
    /\ UNCHANGED concVars

\* memoryDB.Push; opt is the ItemOptions argument, which the body never applies
Push(key, value, opt) ==
    /\ Serving
    /\ Len(log) < MaxLog
    /\ IF key \notin DOMAIN store
       THEN /\ ret' = Ret("Push", key, "errorString", FALSE, NilItem)
            /\ UNCHANGED <<store, log, lastSet>>
       ELSE /\ Len(store[key].Value.list) < MaxListLen
            /\ LET updatedAt == now
                   p == pushToSlice(store[key], updatedAt, value)
               IN  IF p.err # "nil"
                   THEN /\ ret' = Ret("Push", key, "wrap:" \o p.err, FALSE, NilItem)
                        /\ UNCHANGED <<store, log, lastSet>>
                   ELSE /\ store' = StorePut(store, key, p.item)
                        /\ log' = logOperation(log,
                                     Operation("push", key, TRUE,
                                               Item(StrVal(value), 0, 0, 0, updatedAt)))
                        /\ ret' = Ret("Push", key, "nil", TRUE, p.item)
                        /\ lastSet' = Forget(key)
    /\ UNCHANGED <<now, phase, persistenceEnabled, pairVars, logFile, appendOpen, restarts, snap>>
    /\ UNCHANGED concVars

\* memoryDB.Pop
Pop(key) ==
    /\ Serving
    /\ Len(log) < MaxLog
    /\ IF key \notin DOMAIN store
       THEN /\ ret' = Ret("Pop", key, "errorString", FALSE, NilItem)
            /\ UNCHANGED <<store, log, lastSet>>
       ELSE LET updatedAt == now
                p == popFromSlice(store[key], updatedAt)
            IN  IF p.err # "nil"
                THEN /\ ret' = Ret("Pop", key, "wrap:" \o p.err, FALSE, NilItem)
                     /\ UNCHANGED <<store, log, lastSet>>
                ELSE /\ store' = StorePut(store, key, p.item)
                     /\ log' = logOperation(log,
                                  Operation("pop", key, TRUE,
                                            Item(NilValue, 0, 0, 0, updatedAt)))
                     /\ ret' = Ret("Pop", key, "nil", TRUE, p.item)
                     /\ lastSet' = Forget(key)
    /\ UNCHANGED <<now, phase, persistenceEnabled, pairVars, logFile, appendOpen, restarts, snap>>
    /\ UNCHANGED concVars

\* the sweep with the comparison that also takes an entry at its deadline
sweepStoreAtDeadline(st, t) ==
    [x \in {k \in DOMAIN st : ~isExpiredAtDeadline(st[k], t)} |-> st[x]]

\* the map after memoryDB.cleanExpired ran at time t
sweepStore(st, t) == [x \in {k \in DOMAIN st : ~isExpired(st[k], t)} |-> st[x]]

\* sweep that writes a remove record for an entry it deletes
cleanExpiredLogsRemovals ==
    /\ phase = "running"
    /\ store' = sweepStore(store, now)
    /\ lastSet' = [k \in Keys |-> IF k \in DOMAIN store' THEN lastSet[k] ELSE NoSet]
    /\ store' # store
    /\ LET gone == CHOOSE k \in DOMAIN store : k \notin DOMAIN store'
       IN  log' = IF Len(log) < MaxLog
                  THEN logOperation(log, Operation("remove", gone, FALSE, NilItem))
                  ELSE log
    /\ UNCHANGED <<now, phase, persistenceEnabled, pairVars, logFile, appendOpen, restarts,
                   ret, snap>>
    /\ UNCHANGED concVars

\* one tick of startCleanupRoutine: memoryDB.cleanExpired
cleanExpired ==
    /\ phase = "running"
    /\ store' = sweepStore(store, now)
    /\ lastSet' = [k \in Keys |-> IF k \in DOMAIN store' THEN lastSet[k] ELSE NoSet]
    /\ store' # store
    /\ UNCHANGED <<log, now, phase, persistenceEnabled, pairVars, logFile, appendOpen, restarts,
                   ret, snap>>
    /\ UNCHANGED concVars

\* memoryDB.Close (called once per instance)
Close ==
    /\ phase = "running"
    /\ phase' = "closed"
    /\ snap' = [store |-> store, time |-> now]
    /\ store' = EmptyStore
    /\ appendOpen' = IF persistenceEnabled /\ logFile = "append" THEN FALSE ELSE appendOpen
    /\ ret' = Ret("Close", "", "nil", FALSE, NilItem)
    /\ lastSet' = [k \in Keys |-> NoSet]
    /\ UNCHANGED <<log, now, persistenceEnabled, pairVars, logFile, restarts>>
    /\ UNCHANGED concVars

\* NewMemoryDB that logs the replay error and serves what was replayed so far
RestartServesPartialReplay ==
    /\ phase = "closed"
    /\ persistenceEnabled
    /\ restarts < MaxRestarts
    /\ restarts' = restarts + 1
    /\ appendOpen' = TRUE
    /\ LET l == loadStoredData(log)
       IN  /\ logFile' = IF Len(log) = 0 THEN "append" ELSE "reader"
           /\ store' = l.store
           /\ phase' = "running"
           /\ ret' = Ret("NewMemoryDB", "", "nil", FALSE, NilItem)
    /\ lastSet' = [k \in Keys |-> NoSet]
    /\ snap' = [store |-> EmptyStore, time |-> 0]
    /\ UNCHANGED <<log, now, persistenceEnabled, pairVars>>
    /\ UNCHANGED concVars

\* NewMemoryDB whose setupDirectory opens the file with O_TRUNC
RestartTruncates ==
    /\ phase = "closed"
    /\ persistenceEnabled
    /\ restarts < MaxRestarts
    /\ restarts' = restarts + 1
    /\ appendOpen' = TRUE
    /\ log' = <<>>
    /\ logFile' = "append"
    /\ store' = EmptyStore
    /\ phase' = "running"
    /\ ret' = Ret("NewMemoryDB", "", "nil", FALSE, NilItem)
    /\ lastSet' = [k \in Keys |-> NoSet]
    /\ snap' = [store |-> EmptyStore, time |-> 0]
    /\ UNCHANGED <<now, persistenceEnabled, pairVars>>
    /\ UNCHANGED concVars

\* the process exits after Close and a new one calls NewMemoryDB with
\* WithPersistenceEnabled on the same directory
Restart ==
    /\ phase = "closed"
    /\ persistenceEnabled
    /\ restarts < MaxRestarts
    /\ restarts' = restarts + 1
    /\ appendOpen' = TRUE
    /\ LET l == loadStoredData(log)
       IN  /\ logFile' = IF Len(log) = 0 THEN "append" ELSE "reader"
           /\ IF l.err = "nil"
              THEN /\ store' = l.store
                   /\ phase' = "running"
                   /\ ret' = Ret("NewMemoryDB", "", "nil", FALSE, NilItem)
              ELSE /\ store' = EmptyStore
                   /\ phase' = "aborted"
                   /\ ret' = Ret("NewMemoryDB", "", "panic", FALSE, NilItem)
    /\ lastSet' = [k \in Keys |-> NoSet]
    /\ snap' = [store |-> EmptyStore, time |-> 0]   \* compared by this step, then dropped
    /\ UNCHANGED <<log, now, persistenceEnabled, pairVars>>
    /\ UNCHANGED concVars

\* the clock advances between calls
Tick ==
    /\ now < MaxTime
    /\ now' = now + 1
    /\ UNCHANGED <<store, log, phase, persistenceEnabled, pairVars, logFile, appendOpen, restarts,
                   ret, snap, lastSet>>
    /\ UNCHANGED concVars

Next ==
    \/ \E k \in Keys : Get(k)
    \/ \E k \in Keys, v \in InputValues, o \in TTLOpts : Set(k, v, o)
    \/ \E k \in Keys, v \in InputValues, o \in TTLOpts : Update(k, v, o)
    \/ \E k \in Keys : Remove(k)
    \/ \E k \in Keys, x \in Elems, o \in TTLOpts : Push(k, x, o)
    \/ \E k \in Keys : Pop(k)
    \/ cleanExpired
    \/ Close
    \/ Restart
    \/ Tick

Spec == Init /\ [][Next]_vars

\* one run of one instance, from NewMemoryDB to Close: the calls of the public
\* interface and the sweeps, with no later startup on the log it leaves behind
RunNext ==
    \/ \E k \in Keys : Get(k)
    \/ \E k \in Keys, v \in InputValues, o \in TTLOpts : Set(k, v, o)
    \/ \E k \in Keys, v \in InputValues, o \in TTLOpts : Update(k, v, o)
    \/ \E k \in Keys : Remove(k)
    \/ \E k \in Keys, x \in Elems, o \in TTLOpts : Push(k, x, o)
    \/ \E k \in Keys : Pop(k)
    \/ cleanExpired
    \/ Close
    \/ Tick

SpecRun == Init /\ [][RunNext]_vars

\* a persistence-enabled store that is written by Set and Update only, with
\* two values of each variant, over several runs on the same log
RewriteValues == {StrVal("a"), StrVal("b"), ListVal(<<"a">>), ListVal(<<"a", "b">>)}

RewriteInit == Init /\ persistenceEnabled

RewriteNext ==
    \/ \E k \in Keys : Get(k)
    \/ \E k \in Keys, v \in RewriteValues, o \in TTLOpts : Set(k, v, o)
    \/ \E k \in Keys, v \in RewriteValues, o \in TTLOpts : Update(k, v, o)
    \/ cleanExpired
    \/ Close
    \/ Restart
    \/ Tick

SpecRewrite == RewriteInit /\ [][RewriteNext]_vars

\* a persistence-enabled store whose map changes only by calls that are logged:
\* Set, Remove, Push and Pop, on strings and on lists, the empty ones included
LoggedValues == {StrVal("a"), ListVal(<<"a">>), ListVal(<<>>), NilListVal}

LoggedNext ==
    \/ \E k \in Keys, v \in LoggedValues, o \in TTLOpts : Set(k, v, o)
    \/ \E k \in Keys : Remove(k)
    \/ \E k \in Keys, x \in Elems, o \in TTLOpts : Push(k, x, o)
    \/ \E k \in Keys : Pop(k)
    \/ Tick

SpecLogged == RewriteInit /\ [][LoggedNext]_vars

\* =========================================== the goroutines, step by step
\* The same handlers, one step per lock operation and per statement block, for
\* two concurrent callers and the cleanup goroutine, on a persistence-enabled
\* store.

COp(op, key, value, opt) == [op |-> op, key |-> key, value |-> value, opt |-> opt]
ConcCalls ==
    UNION {
        {COp("Get", k, NilValue, NoTTL), COp("Remove", k, NilValue, NoTTL),
         COp("Pop", k, NilValue, NoTTL), COp("Push", k, StrVal("b"), NoTTL)}
        \cup {COp("Set", k, StrVal("a"), o) : o \in TTLOpts \ {NoTTL}}
        \cup {COp("Set", k, ListVal(<<"a">>), NoTTL), COp("Update", k, StrVal("a"), NoTTL)}
      : k \in Keys }
    \cup {COp("Close", "", NilValue, NoTTL)}

Mutators == {"Set", "Update", "Remove", "Push", "Pop"}

\* enums.DBCommand of a mutating call
Command(op) ==
    CASE op = "Set" -> "set"
      [] op = "Update" -> "update"
      [] op = "Remove" -> "remove"
      [] op = "Push" -> "push"
      [] op = "Pop" -> "pop"
      [] OTHER -> "none"

\* the Operation a mutating call passes to logOperation; item is the entry it
\* built or changed
OperationOf(c, item) ==
    CASE c.op = "Set" -> Operation("set", c.key, TRUE, item)
      [] c.op = "Update" -> Operation("update", c.key, TRUE, item)
      [] c.op = "Push" ->
            Operation("push", c.key, TRUE, Item(c.value, 0, 0, 0, item.UpdatedAt))
      [] c.op = "Pop" ->
            Operation("pop", c.key, TRUE, Item(NilValue, 0, 0, 0, item.UpdatedAt))
      [] OTHER -> Operation("remove", c.key, FALSE, NilItem)

ConcInit ==
    /\ Quiescent
    /\ Pristine
    /\ store = EmptyStore
    /\ log = <<>>
    /\ now = 1
    /\ phase = "running"
    /\ persistenceEnabled = TRUE
    /\ logFile = "append"
    /\ appendOpen = TRUE
    /\ restarts = 0
    /\ ret = Ret("NewMemoryDB", "", "nil", FALSE, NilItem)
    /\ snap = [store |-> EmptyStore, time |-> 0]
    /\ lastSet = [k \in Keys |-> NoSet]

\* a caller enters a public method; Close first closes stopChan
Call(t, c) ==
    /\ pc[t] = "idle"
    /\ phase = "running"
    /\ ncalls < MaxCalls
    /\ ncalls' = ncalls + 1
    /\ call' = [call EXCEPT ![t] = c]
    /\ local' = [local EXCEPT ![t] = NoLocal]
    /\ rets' = [rets EXCEPT ![t] = NoRet]
    /\ pc' = [pc EXCEPT ![t] = "lock"]
    /\ phase' = IF c.op = "Close" THEN "closed" ELSE phase
    /\ UNCHANGED <<store, log, now, persistenceEnabled, pairVars, logFile, appendOpen, mu, applied>>
    /\ UNCHANGED seqVars

\* db.mu.Lock() granted although another goroutine holds the lock
LockNoExclusion(p) ==
    /\ pc[p] = "lock"
    /\ mu' = p
    /\ pc' = [pc EXCEPT ![p] = "body"]
    /\ local' = [t \in Callers |-> IF t = p THEN [local[t] EXCEPT !.logLen = Len(log)]
                                   ELSE local[t]]
    /\ UNCHANGED <<store, log, now, phase, persistenceEnabled, pairVars, logFile, appendOpen,
                   call, rets, ncalls, applied>>
    /\ UNCHANGED seqVars

\* db.mu.Lock()
Lock(p) ==
    /\ pc[p] = "lock"
    /\ mu = "free"
    /\ mu' = p
    /\ pc' = [pc EXCEPT ![p] = "body"]
    /\ local' = [t \in Callers |-> IF t = p THEN [local[t] EXCEPT !.logLen = Len(log)]
                                   ELSE local[t]]
    /\ UNCHANGED <<store, log, now, phase, persistenceEnabled, pairVars, logFile, appendOpen,
                   call, rets, ncalls, applied>>
    /\ UNCHANGED seqVars

\* the call of t returns err (and item) once the deferred Unlock has run
Return(t, err, hasItem, item) ==
    /\ rets' = [rets EXCEPT ![t] = Ret(call[t].op, call[t].key, err, hasItem, item)]
    /\ pc' = [pc EXCEPT ![t] = "unlock"]

\* the *Item the map holds under key: every Set stores a new one (numbered by
\* the place of that Set among the applied operations), the replay at startup
\* those numbered 0; Update, Push and Pop write through the pointer
ItemRef(key) ==
    LET sets == {i \in 1..Len(applied) :
                    applied[i].command = "set" /\ applied[i].key = key}
    IN  IF sets = {} THEN 0 ELSE CHOOSE i \in sets : \A j \in sets : j <= i

\* Get, Push and Pop return the pointer they found in the map
ReturnItem(t, item) ==
    /\ rets' = [rets EXCEPT ![t] =
                   [Ret(call[t].op, call[t].key, "nil", TRUE, item)
                      EXCEPT !.ref = ItemRef(call[t].key)]]
    /\ pc' = [pc EXCEPT ![t] = "unlock"]

\* what the callers see in the entries they were handed, once the *Item under
\* key has been written in place
Aliased(rs, key, item) ==
    [u \in Callers |->
        IF rs[u].hasItem /\ rs[u].key = key /\ rs[u].ref = ItemRef(key)
        THEN [rs[u] EXCEPT !.item = item]
        ELSE rs[u]]

\* Get, first statement: value, exists := db.store[key]
GetLookup(t) ==
    /\ pc[t] = "body"
    /\ call[t].op = "Get"
    /\ local' = [local EXCEPT ![t] =
                    IF call[t].key \in DOMAIN store
                    THEN [@ EXCEPT !.exists = TRUE, !.item = store[call[t].key]]
                    ELSE [@ EXCEPT !.exists = FALSE]]
    /\ pc' = [pc EXCEPT ![t] = "check"]
    /\ UNCHANGED <<store, log, now, phase, persistenceEnabled, pairVars, logFile, appendOpen,
                   mu, call, rets, ncalls, applied>>
    /\ UNCHANGED seqVars

\* Get, the rest: the exists test, the isExpired test and the eviction
GetCheck(t) ==
    /\ pc[t] = "check"
    /\ local' = [local EXCEPT ![t].examinedAt = now]
    /\ IF ~local[t].exists
       THEN /\ Return(t, "ErrDataNotFound", FALSE, NilItem)
            /\ UNCHANGED store
       ELSE IF isExpired(local[t].item, now)
       THEN /\ store' = StoreDelete(store, call[t].key)
            /\ Return(t, "ErrKeyHasExpired", FALSE, NilItem)
       ELSE /\ ReturnItem(t, local[t].item)
            /\ UNCHANGED store
    /\ UNCHANGED <<log, now, phase, persistenceEnabled, pairVars, logFile, appendOpen,
                   mu, call, ncalls, applied>>
    /\ UNCHANGED seqVars

\* Set that gives up with an error when the record cannot be appended
SetBuildAndLogAborts(t) ==
    /\ pc[t] = "body"
    /\ call[t].op = "Set"
    /\ LET n == newItem(call[t].value, call[t].opt, [i \in 1..4 |-> now])
       IN  IF n.err # "nil"
           THEN /\ Return(t, "wrap:" \o n.err, FALSE, NilItem)
                /\ UNCHANGED <<log, local>>
           ELSE IF ~appendOpen
           THEN /\ Return(t, "wrap:append", FALSE, NilItem)
                /\ UNCHANGED <<log, local>>
           ELSE /\ log' = logOperation(log, OperationOf(call[t], n.item))
                /\ local' = [local EXCEPT ![t].item = n.item]
                /\ pc' = [pc EXCEPT ![t] = "store"]
                /\ UNCHANGED rets
    /\ UNCHANGED <<store, now, phase, persistenceEnabled, pairVars, logFile, appendOpen,
                   mu, call, ncalls, applied>>
    /\ UNCHANGED seqVars

\* Set, up to and including logOperation: the entry is built and logged
SetBuildAndLog(t) ==
    /\ pc[t] = "body"
    /\ call[t].op = "Set"
    /\ LET n == newItem(call[t].value, call[t].opt, [i \in 1..4 |-> now])
       IN  IF n.err # "nil"
           THEN /\ Return(t, "wrap:" \o n.err, FALSE, NilItem)
                /\ UNCHANGED <<log, local>>
           ELSE /\ log' = logOperation(log, OperationOf(call[t], n.item))
                /\ local' = [local EXCEPT ![t].item = n.item]
                /\ pc' = [pc EXCEPT ![t] = "store"]
                /\ UNCHANGED rets
    /\ UNCHANGED <<store, now, phase, persistenceEnabled, pairVars, logFile, appendOpen,
                   mu, call, ncalls, applied>>
    /\ UNCHANGED seqVars

\* Set, last statement: db.store[key] = itemToStore
SetStore(t) ==
    /\ pc[t] = "store"
    /\ store' = StorePut(store, call[t].key, local[t].item)
    /\ applied' = Append(applied, Encode(OperationOf(call[t], local[t].item)))
    /\ local' = [local EXCEPT ![t].mutated = TRUE]
    /\ Return(t, "nil", FALSE, NilItem)
    /\ UNCHANGED <<log, now, phase, persistenceEnabled, pairVars, logFile, appendOpen,
                   mu, call, ncalls>>
    /\ UNCHANGED seqVars

\* what the first part of Update, Remove, Push and Pop does to the entry found
\* at the key: the error and the entry afterwards (no entry after Remove)
MutationOf(c, item, t) ==
    CASE c.op = "Update" -> itemUpdate(item, c.value, t, c.opt, t)
      [] c.op = "Push" -> pushToSlice(item, t, c.value.str)
      [] c.op = "Pop" -> popFromSlice(item, t)
      [] OTHER -> [err |-> "nil", item |-> NilItem]

\* Update, Remove, Push, Pop up to the map mutation
Mutate(t) ==
    /\ pc[t] = "body"
    /\ call[t].op \in {"Update", "Remove", "Push", "Pop"}
    /\ IF call[t].key \notin DOMAIN store
       THEN /\ Return(t, "errorString", FALSE, NilItem)
            /\ UNCHANGED <<store, applied, local>>
       ELSE LET m == MutationOf(call[t], store[call[t].key], now)
            IN  IF m.err # "nil"
                THEN /\ Return(t, "wrap:" \o m.err, FALSE, NilItem)
                     /\ UNCHANGED <<store, applied, local>>
                ELSE /\ store' = IF call[t].op = "Remove"
                                 THEN StoreDelete(store, call[t].key)
                                 ELSE StorePut(store, call[t].key, m.item)
                     /\ applied' = Append(applied, Encode(OperationOf(call[t], m.item)))
                     /\ local' = [local EXCEPT ![t].item = m.item, ![t].mutated = TRUE]
                     /\ pc' = [pc EXCEPT ![t] = "log"]
                     /\ rets' = IF call[t].op = "Remove" THEN rets
                                ELSE Aliased(rets, call[t].key, m.item)
    /\ UNCHANGED <<log, now, phase, persistenceEnabled, pairVars, logFile, appendOpen,
                   mu, call, ncalls>>
    /\ UNCHANGED seqVars

\* Update, Remove, Push, Pop: logOperation and the return statement
LogAndReturn(t) ==
    /\ pc[t] = "log"
    /\ log' = logOperation(log, OperationOf(call[t], local[t].item))
    /\ IF call[t].op \in {"Push", "Pop"}
       THEN ReturnItem(t, local[t].item)
       ELSE Return(t, "nil", FALSE, NilItem)
    /\ UNCHANGED <<store, now, phase, persistenceEnabled, pairVars, logFile, appendOpen,
                   mu, call, local, ncalls, applied>>
    /\ UNCHANGED seqVars

\* Close that closes the file and leaves the map as it is
CloseClearKeepsMap(t) ==
    /\ pc[t] = "body"
    /\ call[t].op = "Close"
    /\ store' = store
    /\ appendOpen' = IF persistenceEnabled /\ logFile = "append" THEN FALSE ELSE appendOpen
    /\ Return(t, "nil", FALSE, NilItem)
    /\ UNCHANGED <<log, now, phase, persistenceEnabled, pairVars, logFile, mu, call, local,
                   ncalls, applied>>
    /\ UNCHANGED seqVars

\* Close under the lock: the map is replaced and db.logFile closed
CloseClear(t) ==
    /\ pc[t] = "body"
    /\ call[t].op = "Close"
    /\ store' = EmptyStore
    /\ appendOpen' = IF persistenceEnabled /\ logFile = "append" THEN FALSE ELSE appendOpen
    /\ Return(t, "nil", FALSE, NilItem)
    /\ UNCHANGED <<log, now, phase, persistenceEnabled, pairVars, logFile, mu, call, local,
                   ncalls, applied>>
    /\ UNCHANGED seqVars

\* the deferred Unlock that leaves the lock held when the call returns an error
UnlockOnSuccessOnly(p) ==
    /\ pc[p] = "unlock"
    /\ mu' = IF p \in Callers /\ rets[p].err # "nil" THEN mu ELSE "free"
    /\ pc' = [pc EXCEPT ![p] = "idle"]
    /\ local' = [t \in Callers |-> IF t = p THEN NoLocal ELSE local[t]]
    /\ UNCHANGED <<store, log, now, phase, persistenceEnabled, pairVars, logFile, appendOpen,
                   call, rets, ncalls, applied>>
    /\ UNCHANGED seqVars

\* defer db.mu.Unlock() and the return to the caller
Unlock(p) ==
    /\ pc[p] = "unlock"
    /\ mu' = "free"
    /\ pc' = [pc EXCEPT ![p] = "idle"]
    /\ local' = [t \in Callers |-> IF t = p THEN NoLocal ELSE local[t]]
    /\ UNCHANGED <<store, log, now, phase, persistenceEnabled, pairVars, logFile, appendOpen,
                   call, rets, ncalls, applied>>
    /\ UNCHANGED seqVars

\* startCleanupRoutine: the ticker fires and cleanExpired is called
SweepTick ==
    /\ pc["sweeper"] = "idle"
    /\ pc' = [pc EXCEPT !["sweeper"] = "lock"]
    /\ UNCHANGED <<store, log, now, phase, persistenceEnabled, pairVars, logFile, appendOpen,
                   mu, call, local, rets, ncalls, applied>>
    /\ UNCHANGED seqVars

\* cleanExpired under the lock: the scan of the map
SweepScan ==
    /\ pc["sweeper"] = "body"
    /\ store' = sweepStore(store, now)
    /\ pc' = [pc EXCEPT !["sweeper"] = "unlock"]
    /\ UNCHANGED <<log, now, phase, persistenceEnabled, pairVars, logFile, appendOpen,
                   mu, call, local, rets, ncalls, applied>>
    /\ UNCHANGED seqVars

\* startCleanupRoutine: stopChan is closed and the goroutine returns
SweepStop ==
    /\ pc["sweeper"] = "idle"
    /\ phase = "closed"
    /\ pc' = [pc EXCEPT !["sweeper"] = "done"]
    /\ UNCHANGED <<store, log, now, phase, persistenceEnabled, pairVars, logFile, appendOpen,
                   mu, call, local, rets, ncalls, applied>>
    /\ UNCHANGED seqVars

\* the clock advances
ConcTick ==
    /\ now < MaxTime
    /\ now' = now + 1
    /\ UNCHANGED <<store, log, phase, persistenceEnabled, pairVars, logFile, appendOpen>>
    /\ UNCHANGED concVars
    /\ UNCHANGED seqVars

ConcNext ==
    \/ \E t \in Callers, c \in ConcCalls : Call(t, c)
    \/ \E p \in Procs : Lock(p)
    \/ \E t \in Callers : GetLookup(t)
    \/ \E t \in Callers : GetCheck(t)
    \/ \E t \in Callers : SetBuildAndLog(t)
    \/ \E t \in Callers : SetStore(t)
    \/ \E t \in Callers : Mutate(t)
    \/ \E t \in Callers : LogAndReturn(t)
    \/ \E t \in Callers : CloseClear(t)
    \/ \E p \in Procs : Unlock(p)
    \/ SweepTick
    \/ SweepScan
    \/ SweepStop
    \/ ConcTick

\* a goroutine inside a call keeps running, and sync.Mutex hands the lock to a
\* goroutine that keeps waiting for it (starvation mode)
ConcFairness ==
    /\ \A p \in Procs : SF_vars(Lock(p))
    /\ \A p \in Procs : WF_vars(Unlock(p))
    /\ \A t \in Callers :
          WF_vars(GetLookup(t) \/ GetCheck(t) \/ SetBuildAndLog(t) \/ SetStore(t)
                  \/ Mutate(t) \/ LogAndReturn(t) \/ CloseClear(t))
    /\ WF_vars(SweepScan)
    \* select picks among its ready cases at random and the ticker is ready only
    \* once per interval: a closed stopChan is not passed over forever
    /\ SF_vars(SweepStop)

SpecConc == ConcInit /\ [][ConcNext]_vars /\ ConcFairness

\* the same goroutines on an instance that NewMemoryDB has built from a log of
\* one set record (a string or a list of one element, not to expire)
SharedInit ==
    /\ Quiescent
    /\ Pristine
    /\ \E k \in Keys, v \in {StrVal("a"), ListVal(<<"a">>)} :
          log = <<Encode(Operation("set", k, TRUE,
                                   Item(v, MaxTime + defaultTTL, VariantKind(v), 1, 1)))>>
    /\ store = loadStoredData(log).store
    /\ now = 1
    /\ phase = "running"
    /\ persistenceEnabled = TRUE
    /\ logFile = "reader"
    /\ appendOpen = TRUE
    /\ restarts = 1
    /\ ret = Ret("NewMemoryDB", "", "nil", FALSE, NilItem)
    /\ snap = [store |-> EmptyStore, time |-> 0]
    /\ lastSet = [k \in Keys |-> NoSet]

SpecShared == SharedInit /\ [][ConcNext]_vars /\ ConcFairness

\* ================================ startup on a log file found on the disk
\* NewMemoryDB with WithPersistenceEnabled on a directory that already holds a
\* test_db.log of up to MaxLines lines.  The lines are the records the engine
\* writes for one key, a record with a command the engine does not know, and
\* a line that cannot be decoded.

FoundItems ==
    {Item(StrVal("a"), MaxTime, StringType, 1, 1),
     Item(ListVal(<<"a">>), MaxTime, StringSliceType, 1, 1)}

FoundLines ==
    {Encode(Operation("set", k, TRUE, it)) : k \in Keys, it \in FoundItems}
    \cup {Encode(Operation("update", k, TRUE, Item(StrVal("a"), MaxTime, StringType, 1, 1))) :
             k \in Keys}
    \cup {Encode(Operation("remove", k, FALSE, NilItem)) : k \in Keys}
    \cup {Encode(Operation("push", k, TRUE, Item(StrVal("b"), 0, 0, 0, 1))) : k \in Keys}
    \cup {Encode(Operation("pop", k, TRUE, Item(NilValue, 0, 0, 0, 1))) : k \in Keys}
    \cup {Encode(Operation("flush", k, FALSE, NilItem)) : k \in Keys}
    \cup {Encode(Operation(Undecodable, "", FALSE, NilItem))}

FoundLogs == UNION {[1..n -> FoundLines] : n \in 0..MaxLines}

\* the process is about to call NewMemoryDB
ReplayInit ==
    /\ Quiescent
    /\ Pristine
    /\ store = EmptyStore
    /\ log \in FoundLogs
    /\ now = 1
    /\ phase = "closed"
    /\ persistenceEnabled = TRUE
    /\ logFile = "none"
    /\ appendOpen = FALSE
    /\ restarts = 0
    /\ ret = Ret("none", "", "nil", FALSE, NilItem)
    /\ snap = [store |-> EmptyStore, time |-> 0]
    /\ lastSet = [k \in Keys |-> NoSet]

ReplayNext ==
    \/ Restart
    \/ \E k \in Keys : Get(k)
    \/ Close
    \/ Tick

SpecReplay == ReplayInit /\ [][ReplayNext]_vars

\* ======================================= two keys and the lists they share
\* The handlers on a store without persistence, with the []string values as Go
\* holds them: a slice is a backing array, a length and the array's capacity,
\* and two slices made from the same array see each other's writes.  The
\* clock does not advance inside a handler here and the callers pass no TTL
\* override.

PairKeys == {"k1", "k2"}

\* a string, and a []string of the first n cells of arrays[a]
PairStr(x) == [variant |-> "string", str |-> x, list |-> <<>>, nilSlice |-> FALSE,
               arr |-> 0, len |-> 0]
SliceVal(a, n) == [variant |-> "slice", str |-> "", list |-> <<>>, nilSlice |-> FALSE,
                   arr |-> a, len |-> n]

\* the list the caller made once, l := []string{"a", "b"}, and the values it
\* passes to Set and Update: a string, that list, something else
CallerList == <<"a", "b">>
PairValues == {PairStr("a"), SliceVal(1, Len(CallerList)), OtherVal}

\* the elements of a value as a reader of the entry sees them
Elements(h, v) == IF v.variant = "slice" THEN SubSeq(h[v.arr], 1, v.len) ELSE <<>>

\* the built-in append(slice, x): into the next cell of the backing array when
\* the capacity allows, else into a new array of twice the capacity
goAppend(h, v, x) ==
    IF v.len < Len(h[v.arr])
    THEN [heap |-> [h EXCEPT ![v.arr][v.len + 1] = x], val |-> SliceVal(v.arr, v.len + 1)]
    ELSE LET cap == IF v.len = 0 THEN 1 ELSE 2 * v.len
             grown == [i \in 1..cap |-> IF i <= v.len THEN h[v.arr][i]
                                        ELSE IF i = v.len + 1 THEN x ELSE ""]
         IN  [heap |-> Append(h, grown), val |-> SliceVal(Len(h) + 1, v.len + 1)]

\* (d *Item) pushToSlice on the backing arrays h
pushToSliceShared(h, d, updatedAt, value) ==
    IF d.Kind # StringSliceType THEN [err |-> "ErrInvalidDataType", item |-> d, heap |-> h]
    ELSE IF d.Value.variant # "slice"
    THEN [err |-> "ErrInvalidDataType", item |-> d, heap |-> h]
    ELSE LET a == goAppend(h, d.Value, value)
         IN  [err |-> "nil",
              item |-> [d EXCEPT !.Value = a.val, !.UpdatedAt = updatedAt],
              heap |-> a.heap]

\* (d *Item) popFromSlice: slice[:len(slice)-1] keeps the backing array
popFromSliceShared(d, updatedAt) ==
    IF d.Kind # StringSliceType THEN [err |-> "ErrInvalidDataType", item |-> d]
    ELSE IF d.Value.variant # "slice" \/ d.Value.len = 0
         THEN [err |-> "ErrDataNotFound", item |-> d]
    ELSE [err |-> "nil",
          item |-> [d EXCEPT !.Value = SliceVal(d.Value.arr, d.Value.len - 1),
                             !.UpdatedAt = updatedAt]]

\* fmt.Sprintf("key '%s' not found in memory database", key)
NotFoundMessage(key) == "key '" \o key \o "' not found in memory database"

PairInit ==
    /\ Quiescent
    /\ store = EmptyStore
    /\ log = <<>>
    /\ now = 1
    /\ phase = "running"
    /\ persistenceEnabled = FALSE
    /\ logFile = "none"
    /\ appendOpen = FALSE
    /\ restarts = 0
    /\ ret = Ret("NewMemoryDB", "", "nil", FALSE, NilItem)
    /\ snap = [store |-> EmptyStore, time |-> 0]
    /\ lastSet = [k \in Keys |-> NoSet]
    /\ arrays = <<CallerList>>
    /\ errDataNotFound = "item not found"
    /\ held = {}

\* memoryDB.Get; e := ErrDataNotFound copies the pointer, so the two
\* assignments write the package variable the caller is then handed
PairGet(key) ==
    /\ Serving
    /\ IF key \notin DOMAIN store
       THEN /\ errDataNotFound' = NotFoundMessage(key)
            /\ held' = held \cup {key}
            /\ ret' = Ret("Get", key, "ErrDataNotFound", FALSE, NilItem)
            /\ UNCHANGED store
       ELSE IF isExpired(store[key], now)
       THEN /\ store' = StoreDelete(store, key)
            /\ ret' = Ret("Get", key, "ErrKeyHasExpired", FALSE, NilItem)
            /\ UNCHANGED <<errDataNotFound, held>>
       ELSE /\ ret' = Ret("Get", key, "nil", TRUE, store[key])
            /\ UNCHANGED <<store, errDataNotFound, held>>
    /\ UNCHANGED <<log, now, phase, persistenceEnabled, logFile, appendOpen, restarts,
                   snap, lastSet, arrays>>
    /\ UNCHANGED concVars

\* a caller drops the NotFound error it held
PairForget(key) ==
    /\ key \in held
    /\ held' = held \ {key}
    /\ UNCHANGED <<store, log, now, phase, persistenceEnabled, logFile, appendOpen,
                   restarts, ret, snap, lastSet, arrays, errDataNotFound>>
    /\ UNCHANGED concVars

\* memoryDB.Set
PairSet(key, value, opt) ==
    /\ Serving
    /\ LET n == newItem(value, opt, <<now, now, now, now>>)
       IN  IF n.err # "nil"
           THEN /\ ret' = Ret("Set", key, "wrap:" \o n.err, FALSE, NilItem)
                /\ UNCHANGED store
           ELSE /\ store' = StorePut(store, key, n.item)
                /\ ret' = Ret("Set", key, "nil", FALSE, NilItem)
    /\ UNCHANGED <<log, now, phase, persistenceEnabled, logFile, appendOpen, restarts,
                   snap, lastSet>>
    /\ UNCHANGED pairVars
    /\ UNCHANGED concVars

\* memoryDB.Update
PairUpdate(key, value, opt) ==
    /\ Serving
    /\ IF key \notin DOMAIN store
       THEN /\ ret' = Ret("Update", key, "errorString", FALSE, NilItem)
            /\ UNCHANGED store
       ELSE LET u == itemUpdate(store[key], value, now, opt, now)
            IN  /\ store' = StorePut(store, key, u.item)
                /\ ret' = Ret("Update", key,
                              IF u.err = "nil" THEN "nil" ELSE "wrap:" \o u.err,
                              FALSE, NilItem)
    /\ UNCHANGED <<log, now, phase, persistenceEnabled, logFile, appendOpen, restarts,
                   snap, lastSet>>
    /\ UNCHANGED pairVars
    /\ UNCHANGED concVars

\* memoryDB.Remove
PairRemove(key) ==
    /\ Serving
    /\ IF key \notin DOMAIN store
       THEN /\ ret' = Ret("Remove", key, "errorString", FALSE, NilItem)
            /\ UNCHANGED store
       ELSE /\ store' = StoreDelete(store, key)
            /\ ret' = Ret("Remove", key, "nil", FALSE, NilItem)
    /\ UNCHANGED <<log, now, phase, persistenceEnabled, logFile, appendOpen, restarts,
                   snap, lastSet>>
    /\ UNCHANGED pairVars
    /\ UNCHANGED concVars

\* memoryDB.Push
PairPush(key, value) ==
    /\ Serving
    /\ IF key \notin DOMAIN store
       THEN /\ ret' = Ret("Push", key, "errorString", FALSE, NilItem)
            /\ UNCHANGED <<store, arrays>>
       ELSE /\ store[key].Value.len < MaxListLen
            /\ Len(arrays) < MaxArrays
            /\ LET p == pushToSliceShared(arrays, store[key], now, value)
               IN  IF p.err # "nil"
                   THEN /\ ret' = Ret("Push", key, "wrap:" \o p.err, FALSE, NilItem)
                        /\ UNCHANGED <<store, arrays>>
                   ELSE /\ store' = StorePut(store, key, p.item)
                        /\ arrays' = p.heap
                        /\ ret' = Ret("Push", key, "nil", TRUE, p.item)
    /\ UNCHANGED <<log, now, phase, persistenceEnabled, logFile, appendOpen, restarts,
                   snap, lastSet, errDataNotFound, held>>
    /\ UNCHANGED concVars

\* memoryDB.Pop
PairPop(key) ==
    /\ Serving
    /\ IF key \notin DOMAIN store
       THEN /\ ret' = Ret("Pop", key, "errorString", FALSE, NilItem)
            /\ UNCHANGED store
       ELSE LET p == popFromSliceShared(store[key], now)
            IN  IF p.err # "nil"
                THEN /\ ret' = Ret("Pop", key, "wrap:" \o p.err, FALSE, NilItem)
                     /\ UNCHANGED store
                ELSE /\ store' = StorePut(store, key, p.item)
                     /\ ret' = Ret("Pop", key, "nil", TRUE, p.item)
    /\ UNCHANGED <<log, now, phase, persistenceEnabled, logFile, appendOpen, restarts,
                   snap, lastSet>>
    /\ UNCHANGED pairVars
    /\ UNCHANGED concVars

PairNext ==
    \/ \E k \in PairKeys : PairGet(k)
    \/ \E k \in PairKeys : PairForget(k)
    \/ \E k \in PairKeys, v \in PairValues : PairSet(k, v, NoTTL)
    \/ \E k \in PairKeys, v \in PairValues : PairUpdate(k, v, NoTTL)
    \/ \E k \in PairKeys : PairRemove(k)
    \/ \E k \in PairKeys, x \in Elems : PairPush(k, x)
    \/ \E k \in PairKeys : PairPop(k)
    \/ Tick

SpecPair == PairInit /\ [][PairNext]_vars

\* ================================================================== claims

\* an entry whose deadline passed between the shutdown (snap.time) and the
\* restart (t)
ExpiredSinceShutdown(item, t) == snap.time <= item.TTL /\ item.TTL < t

\* the replayed map st shows the same keys, values and kinds as the map that
\* Close discarded, entries that expired since the shutdown left aside
SameAsSnapshot(st, t) ==
    \A k \in Keys :
        LET before == k \in DOMAIN snap.store /\ ~ExpiredSinceShutdown(snap.store[k], t)
            after == k \in DOMAIN st /\ ~ExpiredSinceShutdown(st[k], t)
        IN  /\ before <=> after
            /\ before => /\ st[k].Value = snap.store[k].Value
                         /\ st[k].Kind = snap.store[k].Kind

\* C1: Replay equivalence.  Every restart of a persistence-enabled store
\* completes the replay and yields a map with the same keys, the same value
\* per key and the same kind per key as the map had immediately before the
\* shutdown, ignoring entries whose deadline passed between shutdown and restart.
ReplayEquivalence ==
    [][Restart => (ret'.err = "nil" /\ SameAsSnapshot(store', now'))]_vars

\* C2: Kind invariant.  In every reachable state every stored entry's kind
\* tag equals the variant of its value.
KindInvariant ==
    \A k \in DOMAIN store :
        /\ store[k].Value.variant \in {"string", "slice"}
        /\ store[k].Kind = VariantKind(store[k].Value)

\* C3: Round-trip.  A Get of a key issued before the deadline of the last
\* successful Set(k, v), with no change of the key in between, succeeds and
\* returns an entry whose value is v and whose kind is the variant of v.
RoundTrip ==
    [][\A k \in Keys :
         (Get(k) /\ lastSet[k].valid /\ now < lastSet[k].t0 + lastSet[k].d)
            => /\ ret'.err = "nil"
               /\ ret'.hasItem
               /\ ret'.item.Value = lastSet[k].v
               /\ ret'.item.Kind = VariantKind(lastSet[k].v)]_vars

\* C3 witness: a Get has just returned the list that the last Set stored
WitnessRoundTrip ==
    /\ ret.op = "Get"
    /\ ret.err = "nil"
    /\ lastSet[ret.key].valid
    /\ lastSet[ret.key].v = ListVal(<<"a">>)
    /\ ret.item.Value = ListVal(<<"a">>)

GetOutcomes ==
    [][\A k \in Keys :
         /\ Get(k) =>
              /\ k \notin DOMAIN store =>
                    (ret'.err = "ErrDataNotFound" /\ store' = store)
              /\ (k \in DOMAIN store /\ store[k].TTL < now) =>
                    (ret'.err = "ErrKeyHasExpired" /\ k \notin DOMAIN store')
              /\ (k \in DOMAIN store /\ store[k].TTL >= now) =>
                    (ret'.err = "nil" /\ ret'.item = store[k] /\ store' = store)
              /\ ret'.err # "nil" => (~ret'.hasItem /\ k \notin DOMAIN store')
         /\ (k \notin DOMAIN store /\ k \in DOMAIN store') =>
              \/ \E v \in InputValues, o \in TTLOpts : Set(k, v, o)
              \/ Restart]_vars

\* C5 witness: a Get has just reported Expired and the entry is gone
WitnessGetExpired ==
    /\ ret.op = "Get"
    /\ ret.err = "ErrKeyHasExpired"
    /\ ret.key \notin DOMAIN store

\* the failures that tell the caller the key is not there
NotFoundErrs == {"ErrDataNotFound", "wrap:ErrDataNotFound", "errorString"}

\* C6: Expired is observationally Absent.  Update, Push and Pop of a key whose
\* entry is still in the map but past its deadline fail with NotFound, return
\* no entry, leave the entry as it was and append nothing to the log.
ExpiredIsAbsent ==
    [][\A k \in Keys :
         (/\ k \in DOMAIN store
          /\ isExpired(store[k], now)
          /\ \/ \E v \in InputValues, o \in TTLOpts : Update(k, v, o)
             \/ \E x \in Elems, o \in TTLOpts : Push(k, x, o)
             \/ Pop(k))
            => /\ ret'.err \in NotFoundErrs
               /\ ~ret'.hasItem
               /\ store' = store
               /\ log' = log]_vars

\* a goroutine between its Lock and its Unlock
InCS(p) == pc[p] \in {"body", "check", "store", "log", "unlock"}

\* C7: Atomic check-and-evict.  While a Get is between its lookup and its
\* return it holds the lock and no other caller and no sweep is inside a
\* critical section; the entry it examines is the one the map holds at that
\* moment; the entry it returns is the one the map holds when it returns and
\* its deadline is not before the time of the examination; a Get that fails
\* leaves the key absent.
AtomicCheckAndEvict ==
    \A t \in Callers :
        (call[t].op = "Get" /\ pc[t] \in {"check", "unlock"}) =>
            /\ mu = t
            /\ \A q \in Procs \ {t} : ~InCS(q)
            /\ pc[t] = "check" =>
                  /\ local[t].exists <=> call[t].key \in DOMAIN store
                  /\ local[t].exists => store[call[t].key] = local[t].item
            /\ pc[t] = "unlock" =>
                  IF rets[t].err = "nil"
                  THEN /\ call[t].key \in DOMAIN store
                       /\ store[call[t].key] = rets[t].item
                       /\ rets[t].item.TTL >= local[t].examinedAt
                  ELSE call[t].key \notin DOMAIN store

\* C7 witness: a Get has found its entry expired and evicted it, and is about
\* to return Expired, while the sweep waits for the lock
WitnessGetUnderContention ==
    \E t \in Callers :
        /\ call[t].op = "Get"
        /\ pc[t] = "unlock"
        /\ rets[t].err = "ErrKeyHasExpired"
        /\ local[t].exists
        /\ pc["sweeper"] = "lock"

\* at most one goroutine is inside a critical section, and it is the holder
\* of the lock; a goroutine outside its critical section does not hold it
Serialized ==
    /\ \A p, q \in Procs : (InCS(p) /\ InCS(q)) => p = q
    /\ \A p \in Procs : InCS(p) <=> mu = p

\* C8: Full serialization.  Get, Set, Update, Remove, Push, Pop, the clearing
\* step of Close and every sweep tick run one at a time under the lock, every
\* return path releases it, and every goroutine waiting for the lock gets it
\* and returns.
FullSerialization ==
    /\ []Serialized
    /\ \A p \in Procs : (pc[p] = "lock") ~> (pc[p] = "idle")

\* C8 witness: a call is returning an error while it holds the lock and every
\* other goroutine waits for the lock
WitnessErrorPathHoldsLock ==
    \E t \in Callers :
        /\ pc[t] = "unlock"
        /\ rets[t].err # "nil"
        /\ mu = t
        /\ \A q \in Procs \ {t} : pc[q] = "lock"

IsPrefix(a, b) == Len(a) <= Len(b) /\ SubSeq(b, 1, Len(a)) = a

\* C9: Log order equals mutation order.  Whenever no call is in progress
\* under the lock, the records in the file are, in file order, the successful
\* mutations in the order they took effect in the map (all of them while the
\* file is open, a prefix of them once Close has closed it).
LogOrderIsMutationOrder ==
    mu = "free" =>
        /\ IsPrefix(log, applied)
        /\ appendOpen => log = applied

\* C9 witness: both callers have completed a successful mutation and the file
\* holds the two records
WitnessTwoWritersLogged ==
    /\ mu = "free"
    /\ Len(log) = 2
    /\ \A t \in Callers :
          pc[t] = "idle" /\ rets[t].op \in Mutators /\ rets[t].err = "nil"
    /\ log[1] # log[2]

\* C10: One record per successful mutation, appended after the mutation.
\* Every append is made by the lock holder after its map mutation has been
\* applied and carries its command and key; when a mutating call returns, the
\* file has grown by exactly one record if the call succeeded and by none if
\* it failed.
OneRecordAfterMutation ==
    [][\A t \in Callers :
         /\ (mu = t /\ log' # log) =>
               /\ local[t].mutated
               /\ log' = Append(log, log'[Len(log')])
               /\ log'[Len(log')].command = Command(call[t].op)
               /\ log'[Len(log')].key = call[t].key
         /\ (Unlock(t) /\ call[t].op \in Mutators /\ appendOpen) =>
               Len(log) = local[t].logLen + (IF rets[t].err = "nil" THEN 1 ELSE 0)]_vars

\* the record on `line` is one of those the claim lists, st being the map the
\* records before it have built
FaultyRecord(st, line) ==
    \/ ~Decodable(line)
    \/ line.command \notin {"set", "update", "remove", "push", "pop"}
    \/ /\ line.command \in {"update", "remove", "push", "pop"}
       /\ line.key \notin DOMAIN st
    \/ /\ line.command \in {"push", "pop"}
       /\ line.key \in DOMAIN st
       /\ (st[line.key].Kind # StringSliceType \/ st[line.key].Value.variant # "slice")
    \/ /\ line.command = "pop"
       /\ line.key \in DOMAIN st
       /\ st[line.key].Value.variant = "slice"
       /\ Len(st[line.key].Value.list) = 0

\* some record from line i on is faulty at its point of the replay
RECURSIVE HasFaultyRecord(_, _, _)
HasFaultyRecord(lines, i, st) ==
    IF i > Len(lines) THEN FALSE
    ELSE IF FaultyRecord(st, lines[i]) THEN TRUE
    ELSE HasFaultyRecord(lines, i + 1, replayOne(st, Decode(lines[i])).store)

\* C11: Startup replay is all-or-nothing.  A startup on a log that holds a
\* record for an absent key (update, remove, push, pop), a pop on an empty
\* list, a push or pop on a non-list entry, an unknown command or an
\* undecodable line aborts: no instance is in service afterwards and no map
\* built from the records before the faulty one is kept; an instance that
\* does come into service holds the replay of the whole file.
ReplayAllOrNothing ==
    [][Restart =>
         /\ HasFaultyRecord(log, 1, EmptyStore) =>
               (phase' = "aborted" /\ ~Serving' /\ store' = EmptyStore /\ ret'.err = "panic")
         /\ Serving' =>
               (~HasFaultyRecord(log, 1, EmptyStore) /\ store' = loadStoredData(log).store)]_vars

\* C11 witness: the startup has aborted on a file whose first record is a set
\* that replays and whose second record is faulty
WitnessAbortAfterPartialReplay ==
    /\ phase = "aborted"
    /\ Len(log) >= 2
    /\ log[1].command = "set"
    /\ FaultyRecord(replayOne(EmptyStore, Decode(log[1])).store, log[2])

\* a mutating call is about to return after a critical section in which the
\* append handle was closed: nothing was appended, the call reports success
\* and the map holds its mutation
AppendFailureIsSilent ==
    \A t \in Callers :
        (pc[t] = "unlock" /\ call[t].op \in Mutators /\ ~appendOpen) =>
            /\ mu = t
            /\ Len(log) = local[t].logLen
            /\ (call[t].op = "Set" /\ call[t].value.variant \in {"string", "slice"}) =>
                  /\ rets[t].err = "nil"
                  /\ call[t].key \in DOMAIN store
                  /\ store[call[t].key].Value = call[t].value
            /\ local[t].mutated =>
                  /\ rets[t].err = "nil"
                  /\ IF call[t].op = "Remove"
                     THEN call[t].key \notin DOMAIN store
                     ELSE /\ call[t].key \in DOMAIN store
                          /\ store[call[t].key] = local[t].item

\* C12: Best-effort durability.  When the record of a Set, Update, Remove,
\* Push or Pop cannot be appended because the log handle is closed, the call
\* still returns success with its map mutation applied, and its return
\* releases the lock and keeps the map, so that the store stays usable.
BestEffortDurability ==
    /\ []AppendFailureIsSilent
    /\ [][\A t \in Callers :
            (Unlock(t) /\ call[t].op \in Mutators /\ ~appendOpen) =>
                (mu' = "free" /\ store' = store /\ phase' # "aborted")]_vars

\* C12 witness: a Set that started before Close ran after it, could not append
\* its record, stored its entry and is returning nil
WitnessSetAfterHandleClosed ==
    \E t \in Callers :
        /\ pc[t] = "unlock"
        /\ call[t].op = "Set"
        /\ ~appendOpen
        /\ rets[t].err = "nil"
        /\ call[t].key \in DOMAIN store
        /\ log = <<>>

\* the deadline a Set or Update made at time t with option o asks for
DeadlineAsked(o, t) == t + (IF o = NoTTL THEN defaultTTL ELSE o)

\* C13: Set is an unconditional full replace.  A Set(k, v) with a valid v
\* succeeds whether k is absent, live or expired; afterwards the entry at k
\* has value v, the kind of v, createdAt = updatedAt = the time of the Set and
\* expiresAt = that time plus the TTL override or the default TTL.
SetIsFullReplace ==
    [][\A k \in Keys, v \in InputValues, o \in TTLOpts :
         (Set(k, v, o) /\ v.variant \in {"string", "slice"}) =>
            /\ ret'.err = "nil"
            /\ k \in DOMAIN store'
            /\ store'[k].Value = v
            /\ store'[k].Kind = VariantKind(v)
            /\ store'[k].CreatedAt = store'[k].UpdatedAt
            /\ store'[k].CreatedAt \in now..now'
            /\ store'[k].TTL = DeadlineAsked(o, store'[k].CreatedAt)]_vars

\* the errors that are, or wrap, ErrDataNotFound: the error Get returns for an
\* absent key
NotFoundKind == {"ErrDataNotFound", "wrap:ErrDataNotFound"}

\* Update, Remove, Push or Pop is called on key k
MutatesExisting(k) ==
    \/ \E v \in InputValues, o \in TTLOpts : Update(k, v, o)
    \/ Remove(k)
    \/ \E x \in Elems, o \in TTLOpts : Push(k, x, o)
    \/ Pop(k)

\* C14: Absent-key failures.  Update, Remove, Push and Pop on a key that is
\* not in the map fail with the NotFound error kind that Get reports for an
\* absent key, return no entry, leave the map unchanged and append nothing.
AbsentKeyFailures ==
    [][\A k \in Keys :
         (k \notin DOMAIN store /\ MutatesExisting(k)) =>
            /\ ret'.err \in NotFoundKind
            /\ ~ret'.hasItem
            /\ store' = store
            /\ log' = log]_vars

\* the errors that are, or wrap, ErrInvalidDataType
InvalidTypeKind == {"ErrInvalidDataType", "wrap:ErrInvalidDataType"}

\* C15: Type guard for list operations.  Push and Pop on an existing entry of
\* kind String fail with InvalidType, return no entry and leave the entry
\* (value, kind, deadline, updatedAt) and the log unchanged.
TypeGuardForListOps ==
    [][\A k \in Keys :
         (/\ k \in DOMAIN store
          /\ store[k].Kind = StringType
          /\ \/ \E x \in Elems, o \in TTLOpts : Push(k, x, o)
             \/ Pop(k))
            => /\ ret'.err \in InvalidTypeKind
               /\ ~ret'.hasItem
               /\ store' = store
               /\ log' = log]_vars

\* C15 witness: a Push on a String entry has just failed with InvalidType
WitnessPushOnString ==
    /\ ret.op = "Push"
    /\ ret.err \in InvalidTypeKind
    /\ ret.key \in DOMAIN store
    /\ store[ret.key].Kind = StringType
    /\ store[ret.key].Value = StrVal("a")

\* C16: Update may change the variant.  Update(k, v) on an existing entry
\* succeeds for every valid v whatever the kind of the entry; afterwards the
\* value is v and the kind is the variant of v; a Push that follows a
\* successful Update succeeds when the Update stored a list and fails with
\* InvalidType when it stored a string.
UpdateChangesVariant ==
    [][\A k \in Keys :
         /\ \A v \in InputValues, o \in TTLOpts :
               (k \in DOMAIN store /\ v.variant \in {"string", "slice"} /\ Update(k, v, o)) =>
                  /\ ret'.err = "nil"
                  /\ k \in DOMAIN store'
                  /\ store'[k].Value = v
                  /\ store'[k].Kind = VariantKind(v)
         /\ \A x \in Elems, o \in TTLOpts :
               (/\ ret.op = "Update" /\ ret.err = "nil" /\ ret.key = k
                /\ k \in DOMAIN store
                /\ Push(k, x, o)) =>
                  IF store[k].Value.variant = "slice"
                  THEN ret'.err = "nil" /\ store'[k].Kind = StringSliceType
                  ELSE ret'.err \in InvalidTypeKind]_vars

\* C16 witness: an Update has just turned the String entry written by the Set
\* into a List entry
WitnessStringToList ==
    /\ ret.op = "Update"
    /\ ret.err = "nil"
    /\ Len(log) = 2
    /\ log[1].command = "set" /\ log[1].kind = StringType
    /\ log[2].command = "update" /\ log[2].kind = StringSliceType
    /\ ret.key \in DOMAIN store
    /\ store[ret.key].Kind = StringSliceType
    /\ store[ret.key].Value = ListVal(<<"a">>)

\* the entry at k is a List entry: kind List, holding a list
IsListEntry(st, k) ==
    /\ k \in DOMAIN st
    /\ st[k].Kind = StringSliceType
    /\ st[k].Value.variant = "slice"

\* C17: Push appends at the end.  Push(k, x) on an existing List entry with
\* content L succeeds and leaves the entry with content L followed by x; the
\* entry it returns shows that content.  (By induction, n successive pushes
\* leave L followed by x1..xn in call order.)
PushAppendsAtEnd ==
    [][\A k \in Keys, x \in Elems, o \in TTLOpts :
         (IsListEntry(store, k) /\ Push(k, x, o)) =>
            /\ ret'.err = "nil"
            /\ IsListEntry(store', k)
            /\ store'[k].Value.list = Append(store[k].Value.list, x)
            /\ ret'.hasItem
            /\ ret'.item.Value = store'[k].Value]_vars

\* C17 witness: two successive pushes, of "b" and then of "a", onto the list
\* that a Pop had emptied
WitnessTwoPushesInOrder ==
    /\ ret.op = "Push"
    /\ ret.err = "nil"
    /\ ret.key \in DOMAIN store
    /\ store[ret.key].Value = ListVal(<<"b", "a">>)
    /\ ret.item.Value = ListVal(<<"b", "a">>)

\* C18: Push refreshes the TTL when asked.  Push(k, x, ttlOverride) on an
\* existing List entry sets the deadline of the entry to the time of the Push
\* plus the override; Push without an override leaves the deadline unchanged.
PushRefreshesTTL ==
    [][\A k \in Keys, x \in Elems, o \in TTLOpts :
         (IsListEntry(store, k) /\ Push(k, x, o)) =>
            /\ ret'.err = "nil"
            /\ store'[k].TTL = IF o = NoTTL THEN store[k].TTL ELSE now + o]_vars

\* C19: Pop removes exactly the last element.  Pop(k) on a List entry with
\* n >= 1 elements leaves the first n-1 elements in order and returns the
\* entry as it is after the removal, still of kind List; Pop on a List entry
\* with no element fails with NotFound and leaves the entry unchanged.
PopRemovesLast ==
    [][\A k \in Keys :
         (IsListEntry(store, k) /\ Pop(k)) =>
            LET L == store[k].Value.list
            IN  IF Len(L) >= 1
                THEN /\ ret'.err = "nil"
                     /\ IsListEntry(store', k)
                     /\ store'[k].Value.list = SubSeq(L, 1, Len(L) - 1)
                     /\ ret'.hasItem
                     /\ ret'.item = store'[k]
                ELSE /\ ret'.err \in NotFoundKind
                     /\ ~ret'.hasItem
                     /\ store' = store
                     /\ log' = log]_vars

\* C19 witness: a Pop has just failed on the list that an earlier Pop emptied
WitnessPopOnEmptyList ==
    /\ ret.op = "Pop"
    /\ ret.err \in NotFoundKind
    /\ IsListEntry(store, ret.key)
    /\ store[ret.key].Value.list = <<>>

\* C20: Pop undoes Push.  When the last call on the instance was a successful
\* Push(k, x) that left the List entry at k with content L followed by x, and
\* the entry has not changed since, Pop(k) succeeds and leaves the entry with
\* content L.
PopUndoesPush ==
    [][\A k \in Keys, x \in Elems :
         (/\ ret.op = "Push" /\ ret.err = "nil" /\ ret.key = k
          /\ k \in DOMAIN store
          /\ store[k] = ret.item
          /\ Len(ret.item.Value.list) >= 1
          /\ ret.item.Value.list[Len(ret.item.Value.list)] = x
          /\ Pop(k)) =>
            /\ ret'.err = "nil"
            /\ IsListEntry(store', k)
            /\ Append(store'[k].Value.list, x) = ret.item.Value.list]_vars

\* C20 witness: a Pop has just succeeded and left a non-empty list; the lists
\* given to Set and Update hold one element, so the entry held two elements
\* after a Push and nothing changed it between that Push and the Pop
WitnessPopAfterPush ==
    /\ ret.op = "Pop"
    /\ ret.err = "nil"
    /\ IsListEntry(store, ret.key)
    /\ store[ret.key].Value.list = <<"a">>
    /\ MaxListLen = 2

\* C21: Remove makes the key absent.  A Remove of a key that is in the map
\* succeeds and takes it out; while the key is absent Get, Update, Push, Pop and
\* Remove on it fail and only a Set brings it back; and the entry that Set
\* stores is the one newItem builds from the Set's own arguments and clock
\* readings, whatever was stored under the key before.
SetOf(k) == \E v \in InputValues, o \in TTLOpts : Set(k, v, o)
CallOn(k) ==
    \/ Get(k) \/ Remove(k) \/ Pop(k)
    \/ \E v \in InputValues, o \in TTLOpts : Update(k, v, o)
    \/ \E x \in Elems, o \in TTLOpts : Push(k, x, o)
RemoveMakesAbsent ==
    [][\A k \in Keys :
         /\ (Remove(k) /\ k \in DOMAIN store) =>
                (ret'.err = "nil" /\ k \notin DOMAIN store')
         /\ (k \notin DOMAIN store /\ CallOn(k)) =>
                (ret'.err # "nil" /\ ~ret'.hasItem /\ k \notin DOMAIN store')
         /\ (k \notin DOMAIN store /\ k \in DOMAIN store') => SetOf(k)
         /\ \A v \in InputValues, o \in TTLOpts :
               (Set(k, v, o) /\ ret'.err = "nil") =>
                  \E r \in Reads(4) : store'[k] = newItem(v, o, r).item
    ]_vars
WitnessRemoved ==
    \E k \in Keys :
        /\ ret = Ret("Remove", k, "nil", FALSE, NilItem)
        /\ k \notin DOMAIN store
        /\ phase = "running"

\* C22: Remove on an expired entry that no Get and no sweep has evicted yet.
\* The call succeeds (it reports neither NotFound nor Expired), the entry is
\* deleted and, with persistence enabled, one remove record for the key is
\* appended to the log.
RemoveRecord(k) == Encode(Operation("remove", k, FALSE, NilItem))
RemoveOfExpired ==
    [][\A k \in Keys :
         (Remove(k) /\ k \in DOMAIN store /\ isExpired(store[k], now)) =>
            /\ ret' = Ret("Remove", k, "nil", FALSE, NilItem)
            /\ k \notin DOMAIN store'
            /\ persistenceEnabled => log' = Append(log, RemoveRecord(k))
            /\ ~persistenceEnabled => log' = log
    ]_vars
\* a Remove has succeeded and left its record behind the set record of an
\* entry whose deadline has passed
WitnessExpiredRemoved ==
    \E k \in Keys :
        /\ persistenceEnabled
        /\ ret = Ret("Remove", k, "nil", FALSE, NilItem)
        /\ Len(log) = 2
        /\ log[1].command = "set" /\ log[1].key = k /\ log[1].ttl < now
        /\ log[2] = RemoveRecord(k)

\* C23: Set rejects invalid shapes without side effects.  A Set whose value is
\* neither a string nor a list of strings fails with InvalidType, and a Set that
\* fails so leaves the map as it was (an entry stored under the key keeps every
\* field) and appends nothing to the log.
ValidShape(v) == v.variant \in {"string", "slice"}
SetRejectsInvalid ==
    [][\A k \in Keys, o \in TTLOpts :
         /\ \A v \in InputValues :
               Set(k, v, o) =>
                  (ret'.err = "wrap:ErrInvalidDataType" <=> ~ValidShape(v))
         /\ (SetOf(k) /\ ret'.err = "wrap:ErrInvalidDataType") =>
               (store' = store /\ log' = log)
    ]_vars
WitnessRejectedSetKeepsEntry ==
    \E k \in Keys :
        /\ ret = Ret("Set", k, "wrap:ErrInvalidDataType", FALSE, NilItem)
        /\ k \in DOMAIN store
        /\ persistenceEnabled /\ Len(log) = 1

\* C24: Close clears the store and stops the sweep.  When Close returns the map
\* holds no entry; a Close that waits for the lock, also behind a sweep that is
\* waiting for or holding it, returns; and once stopChan is closed the cleanup
\* goroutine ends.
CloseReturning(t) == call[t].op = "Close" /\ pc[t] = "unlock"
CloseReturned(t) == rets[t].op = "Close" /\ pc[t] = "idle"
CloseClearsAndStops ==
    /\ [](\A t \in Callers : CloseReturning(t) => store = EmptyStore)
    /\ \A t \in Callers :
          (call[t].op = "Close" /\ pc[t] = "lock") ~> CloseReturned(t)
    /\ (phase = "closed") ~> (pc["sweeper"] = "done")
\* Close has returned after another caller's entry went into the map, and the
\* cleanup goroutine has ended
WitnessClosedAndStopped ==
    \E t \in Callers :
        /\ CloseReturned(t)
        /\ applied # <<>>
        /\ store = EmptyStore
        /\ pc["sweeper"] = "done"

\* C25: Close releases the log handle.  Once Close has returned on a
\* persistence-enabled instance the append handle that WithPersistenceEnabled
\* opened on the log is closed, whether the instance started on an absent or
\* empty log or replayed a non-empty one.  (The read handle of the replay is
\* closed by loadStoredData itself.)
CloseReleasesLogHandle ==
    (persistenceEnabled /\ phase = "closed") => ~appendOpen

\* C26: the sweep removes exactly the expired entries.  A run of cleanExpired
\* leaves in the map the entries that were not expired when it ran, each with
\* every field as it was, and nothing else: the expired ones are gone and no
\* entry is created or modified.
LiveKeys(st, t) == {k \in DOMAIN st : ~isExpired(st[k], t)}
SweepRemovesExactlyExpired ==
    [][(SweepScan \/ cleanExpired) =>
          /\ DOMAIN store' = LiveKeys(store, now)
          /\ \A k \in DOMAIN store' : store'[k] = store[k]
    ]_vars
\* the sweep holds the lock after a scan that took the only entry out of the
\* map: no caller has removed or evicted it and Close has not been called
WitnessSweptExpired ==
    /\ pc["sweeper"] = "unlock"
    /\ phase = "running"
    /\ store = EmptyStore
    /\ Len(applied) = 1 /\ applied[1].command = "set" /\ applied[1].ttl < now
    /\ \A t \in Callers : rets[t].err = "nil" /\ pc[t] = "idle"

\* C27: timestamps.  Update, Push and Pop leave CreatedAt as the creating Set
\* wrote it; a successful Set, Update, Push or Pop leaves UpdatedAt at a clock
\* value read during that call; so UpdatedAt >= CreatedAt in every state and,
\* with a clock that does not go backwards, the UpdatedAt stored under a key
\* never decreases.
InPlace(k) ==
    \/ \E v \in InputValues, o \in TTLOpts : Update(k, v, o)
    \/ \E x \in Elems, o \in TTLOpts : Push(k, x, o)
    \/ Pop(k)
TimestampsOrdered ==
    \A k \in DOMAIN store :
        store[k].CreatedAt <= store[k].UpdatedAt /\ store[k].UpdatedAt <= now
Timestamps ==
    /\ []TimestampsOrdered
    /\ [][\A k \in Keys :
            /\ (InPlace(k) /\ ret'.err = "nil") =>
                  /\ store'[k].CreatedAt = store[k].CreatedAt
                  /\ now <= store'[k].UpdatedAt /\ store'[k].UpdatedAt <= now'
            /\ (SetOf(k) /\ ret'.err = "nil") =>
                  /\ now <= store'[k].CreatedAt
                  /\ now <= store'[k].UpdatedAt /\ store'[k].UpdatedAt <= now'
            /\ (k \in DOMAIN store /\ k \in DOMAIN store') =>
                  store[k].UpdatedAt <= store'[k].UpdatedAt
       ]_vars
\* a Pop has just moved UpdatedAt past the CreatedAt of the entry it returned
WitnessUpdatedAfterCreated ==
    \E k \in Keys :
        /\ ret.op = "Pop" /\ ret.key = k /\ ret.err = "nil"
        /\ k \in DOMAIN store /\ store[k] = ret.item
        /\ store[k].CreatedAt < store[k].UpdatedAt
        /\ store[k].UpdatedAt = now

\* C28: returned entries are not aliased to store state.  What a caller sees in
\* the entry that Get, Push or Pop handed to it stays what it was when the call
\* returned, whatever this or another caller or the sweep does to the store
\* before the caller's next call.
ReturnedEntryIsPrivate ==
    [][\A u \in Callers :
         (rets[u].hasItem /\ rets'[u].hasItem) => rets'[u].item = rets[u].item
    ]_vars

\* C29: Set then Update survives a restart.  On a persistence-enabled store,
\* for a key whose records in the log are a Set followed by one or more Updates
\* with values of the Set's variant and the Set's deadline (no TTL override),
\* the startup restores the entry with the value, kind and deadline it had when
\* the store was closed, and a Get made after the startup and not after the
\* deadline returns the value of the last Update.
KeyLines(lines, k) == SelectSeq(lines, LAMBDA l : l.key = k)
UpdatedSinceSet(lines, k) ==
    LET kl == KeyLines(lines, k)
        sets == {i \in 1..Len(kl) : kl[i].command = "set"}
    IN  /\ sets # {}
        /\ LET i == CHOOSE i \in sets : \A j \in sets : j <= i
           IN  /\ i < Len(kl)
               /\ \A j \in (i + 1)..Len(kl) :
                     /\ kl[j].command = "update"
                     /\ kl[j].value.j = kl[i].value.j
                     /\ kl[j].ttl = kl[i].ttl
LastValue(lines, k) ==
    LET kl == KeyLines(lines, k) IN UnmarshalJSON(kl[Len(kl)].value)
JustStarted == ret.op = "NewMemoryDB" /\ phase = "running" /\ restarts > 0
SetThenUpdateSurvivesRestart ==
    [][\A k \in Keys :
         /\ (Restart /\ UpdatedSinceSet(log, k) /\ k \in DOMAIN snap.store) =>
               /\ phase' = "running" /\ k \in DOMAIN store'
               /\ store'[k].Value = snap.store[k].Value
               /\ store'[k].Value = LastValue(log, k)
               /\ store'[k].Kind = snap.store[k].Kind
               /\ store'[k].TTL = snap.store[k].TTL
         /\ (Get(k) /\ JustStarted /\ UpdatedSinceSet(log, k) /\ k \in DOMAIN store
               /\ ~isExpired(store[k], now)) =>
               /\ ret'.err = "nil" /\ ret'.hasItem
               /\ ret'.item.Value = LastValue(log, k)
               /\ ret'.item.Kind = VariantKind(LastValue(log, k))
    ]_vars
\* the store has just started on a log of a Set and an Update to another value
\* of the same variant and holds the Update's value, not yet expired
WitnessUpdateReplayed ==
    \E k \in Keys :
        /\ JustStarted
        /\ Len(log) = 2 /\ UpdatedSinceSet(log, k)
        /\ log[1].value # log[2].value
        /\ k \in DOMAIN store
        /\ store[k].Value = LastValue(log, k)
        /\ ~isExpired(store[k], now)

\* C30: logged records replay with live semantics.  Whatever Set, Remove, Push
\* and Pop calls a persistence-enabled store has served, on string values and on
\* list values, empty lists included, the replay of its log succeeds and yields
\* the map the store holds: every entry equal in value, kind, deadline,
\* CreatedAt and UpdatedAt, a pushed element at the end of its list, a popped
\* one gone, a removed key absent.
ReplayMatchesLive ==
    loadStoredData(log) = [err |-> "nil", store |-> store]

\* ------------------------------------------------------------ the transport
\* Handler.wrapDBError: the API error for an error a store call returned.  The
\* type assertion err.(*db.DBerror) fails for an error built by fmt.Errorf,
\* wrapping or not, and the switch knows two of the three DBerror values.
wrapDBError(err) ==
    CASE err = "ErrDataNotFound" -> "ErrItemNotFound"
      [] err = "ErrKeyHasExpired" -> "ErrKeyHasExpired"
      [] OTHER -> "ErrInternalServer"

\* wrapError: an error that is not an *apierrors.ApiError is answered as
\* ErrInternalServer
wrapError(err) ==
    IF err \in {"ErrItemNotFound", "ErrKeyHasExpired", "ErrInternalServer",
                "ErrInvalidRequest", "ErrInvalidJSON"}
    THEN err ELSE "ErrInternalServer"

\* the API error a handler answers with when its store call returned r:
\* HandleSet passes fmt.Errorf("...: %w", err) to wrapError, the other
\* handlers pass wrapDBError(err)
HandlerError(r) ==
    IF r.op = "Set" THEN wrapError("wrap:" \o r.err) ELSE wrapError(wrapDBError(r.err))

\* responses with status 404 or 410, and with status 400
ResourceAbsent == {"ErrItemNotFound", "ErrKeyHasExpired"}
BadInput == {"ErrInvalidRequest", "ErrInvalidJSON"}

\* C31: error kinds reach the caller as typed failures the transport can map.
\* A store call that fails on an absent or expired key is answered with a
\* resource-absent response, one that fails with InvalidType with a bad-input
\* response, and no failure of Get, Set, Update, Remove, Push or Pop is answered
\* with an internal server error.
StoreErrorsAreMapped ==
    [][\A k \in Keys :
         ((CallOn(k) \/ SetOf(k)) /\ ret'.err # "nil") =>
            /\ HandlerError(ret') # "ErrInternalServer"
            /\ (k \notin DOMAIN store \/ ret'.err = "ErrKeyHasExpired") =>
                  HandlerError(ret') \in ResourceAbsent
            /\ ret'.err \in InvalidTypeKind => HandlerError(ret') \in BadInput
    ]_vars

\* C32: startup replay never aborts on the engine's own log.  Whatever calls a
\* persistence-enabled store has served, a startup on the log it has written
\* replays every record: loadStoredData returns no error and does not panic.
ReplayOfOwnLogCompletes ==
    persistenceEnabled => loadStoredData(log).err = "nil"

\* C33: deadlines survive a restart.  Every key the map held when the store was
\* closed is in the map after the startup with the deadline it had at the
\* close, also when an Update with a TTL override was the last to change it.
DeadlinesSurviveRestart ==
    [][Restart =>
          \A k \in DOMAIN snap.store :
              k \in DOMAIN store' /\ store'[k].TTL = snap.store[k].TTL
    ]_vars

\* C34: Update applies a TTL override and otherwise keeps the deadline.  After
\* a successful Update with an override the deadline is a clock value read
\* during the call plus the override; after one without override the deadline
\* is exactly what it was; CreatedAt is unchanged in both cases.
UpdateDeadline ==
    [][\A k \in Keys, v \in InputValues, o \in TTLOpts :
         (Update(k, v, o) /\ ret'.err = "nil") =>
            /\ store'[k].CreatedAt = store[k].CreatedAt
            /\ o = NoTTL => store'[k].TTL = store[k].TTL
            /\ o # NoTTL => (now + o <= store'[k].TTL /\ store'[k].TTL <= now' + o)
    ]_vars
\* an Update has just moved the deadline the Set had given, and nothing else
\* of the entry's lifetime
WitnessUpdateOverride ==
    \E k \in Keys :
        /\ persistenceEnabled
        /\ ret = Ret("Update", k, "nil", FALSE, NilItem)
        /\ Len(log) = 2 /\ log[1].command = "set" /\ log[2].command = "update"
        /\ log[2].ttl # log[1].ttl
        /\ log[2].created_at = log[1].created_at
        /\ k \in DOMAIN store /\ store[k].TTL = log[2].ttl

\* C35: Update with an invalid value leaves the entry untouched.  An Update of
\* an existing key with a value that is neither a string nor a list of strings
\* fails with InvalidType; value, kind, deadline (also when an override was
\* passed), CreatedAt and UpdatedAt of the entry are what they were and nothing
\* is appended to the log.
UpdateRejectsInvalid ==
    [][\A k \in Keys, o \in TTLOpts :
         /\ \A v \in InputValues :
               (Update(k, v, o) /\ k \in DOMAIN store) =>
                  (ret'.err = "wrap:ErrInvalidDataType" <=> ~ValidShape(v))
         /\ ((\E v \in InputValues : Update(k, v, o))
               /\ ret'.err = "wrap:ErrInvalidDataType") =>
               (store' = store /\ log' = log)
    ]_vars
\* an Update has just been rejected and the entry the Set logged is in the map
\* as it was logged
WitnessRejectedUpdate ==
    \E k \in Keys :
        /\ ret = Ret("Update", k, "wrap:ErrInvalidDataType", FALSE, NilItem)
        /\ persistenceEnabled /\ Len(log) = 1
        /\ k \in DOMAIN store
        /\ Encode(Operation("set", k, TRUE, store[k])) = log[1]

EvictionsAreNotLogged ==
    [][/\ (cleanExpired \/ Close \/ \E k \in Keys : Get(k)) => log' = log
       /\ log' # log =>
             /\ \E k \in Keys : (SetOf(k) \/ CallOn(k)) /\ ret'.key = k
             /\ ret'.op \in {"Set", "Update", "Remove", "Push", "Pop"}
             /\ ret'.err = "nil"
             /\ Len(log') = Len(log) + 1
             /\ SubSeq(log', 1, Len(log)) = log
    ]_vars
\* the sweep has deleted the entry a Set stored and the log still ends with
\* the record of that Set
WitnessSweptUnlogged ==
    /\ persistenceEnabled /\ phase = "running"
    /\ ret.op = "Set" /\ ret.err = "nil"
    /\ store = EmptyStore
    /\ Len(log) = 1 /\ log[1].command = "set"

\* the entry of key k as a reader sees it: absent, or its fields with the
\* elements its list has
EntryView(st, h, k) ==
    IF k \notin DOMAIN st THEN [present |-> FALSE]
    ELSE [present |-> TRUE, variant |-> st[k].Value.variant, str |-> st[k].Value.str,
          elements |-> Elements(h, st[k].Value), Kind |-> st[k].Kind, TTL |-> st[k].TTL,
          CreatedAt |-> st[k].CreatedAt, UpdatedAt |-> st[k].UpdatedAt]
PairCallOn(k) ==
    \/ PairGet(k) \/ PairRemove(k) \/ PairPop(k)
    \/ \E v \in PairValues : PairSet(k, v, NoTTL) \/ PairUpdate(k, v, NoTTL)
    \/ \E x \in Elems : PairPush(k, x)
\* C38: key independence.  A Get, Set, Update, Remove, Push or Pop on key k
\* leaves the entry of every other key as it was: its presence, value, kind,
\* deadline and timestamps, also when both keys were Set from the same list of
\* the caller.
KeyIndependence ==
    [][\A k \in PairKeys :
         PairCallOn(k) =>
            \A k2 \in PairKeys \ {k} :
                EntryView(store', arrays', k2) = EntryView(store, arrays, k2)
    ]_vars

\* C40: NotFound errors identify their own key.  The message of the NotFound
\* error a caller was handed by Get(k) for an absent key k names k for as long
\* as the caller holds it, whatever Gets on other absent keys are made
\* meanwhile: every held error reads as the message of its own key.
NotFoundNamesItsKey == \A k \in held : errDataNotFound = NotFoundMessage(k)

\* C39: the log is append-only across restarts.  No step removes or rewrites a
\* record: a step leaves the log as it is or puts one record behind the
\* others, so that after any number of runs the log is the records of the
\* sessions one after the other.  A startup on an existing log leaves the file
\* as it found it and the map it serves is the replay of the whole file from
\* its first record.
LogIsAppendOnly ==
    [][/\ Len(log) <= Len(log') /\ Len(log') <= Len(log) + 1
       /\ SubSeq(log', 1, Len(log)) = log
       /\ (Close \/ Restart) => log' = log
       /\ (Restart /\ phase' = "running") => store' = replayFrom(log, 1, EmptyStore).store
    ]_vars
\* a session that started on the record an earlier session had left has put
\* its own record behind it
WitnessSecondSessionAppends ==
    /\ persistenceEnabled /\ phase = "running"
    /\ restarts > 0 /\ logFile = "reader"
    /\ ret.op = "Update" /\ ret.err = "nil"
    /\ Len(log) = 2 /\ log[1].command = "set" /\ log[2].command = "update"

====
